---- MODULE Spec2Model ----
(***************************************************************************)
(* Regex-grammar compilers of the demos repository.                        *)
(*                                                                         *)
(*   earnings-reports/extraction.py : create_regex_pattern (CSV grammar)   *)
(*   its-a-smol-world/src/smol_mind.py : type_to_regex, build_dict_regex,  *)
(*       build_standard_fc_regex, multi_function_fc_regex                  *)
(*                                                                         *)
(* A Python string is a sequence of one-character strings.  The compilers  *)
(* build pattern strings exactly as the code concatenates them; a pattern  *)
(* is then read the way the regular-expression engine behind              *)
(* outlines.generate.regex reads it (Parse) and matched against the whole  *)
(* text (fullmatch).                                                       *)
(***************************************************************************)
EXTENDS Integers, Sequences, FiniteSets, TLC

(***************************************************************************)
(* Characters                                                              *)
(***************************************************************************)

\* The printable ASCII characters, code points 32..126, in order (code point
\* 96 is spelled out: no text of the model contains it).
Printable ==
    <<" ", "!", "\"", "#", "$", "%", "&", "'", "(", ")", "*", "+", ",", "-", ".", "/",
      "0", "1", "2", "3", "4", "5", "6", "7", "8", "9", ":", ";", "<", "=", ">", "?",
      "@", "A", "B", "C", "D", "E", "F", "G", "H", "I", "J", "K", "L", "M", "N", "O",
      "P", "Q", "R", "S", "T", "U", "V", "W", "X", "Y", "Z", "[", "\\", "]", "^", "_",
      "grave", "a", "b", "c", "d", "e", "f", "g", "h", "i", "j", "k", "l", "m", "n", "o",
      "p", "q", "r", "s", "t", "u", "v", "w", "x", "y", "z", "{", "|", "}", "~">>

\* Code point of every character the model uses.
CharCode ==
    [c \in {Printable[k] : k \in 1..Len(Printable)} |->
        31 + (CHOOSE k \in 1..Len(Printable) : Printable[k] = c)]
    @@ ("\n" :> 10) @@ ("\t" :> 9)

ord(c) == CharCode[c]

DIGITS == {"0", "1", "2", "3", "4", "5", "6", "7", "8", "9"}

HexDigits == DIGITS \cup {"a", "b", "c", "d", "e", "f", "A", "B", "C", "D", "E", "F"}

HexVal(c) ==
    IF c \in DIGITS THEN ord(c) - 48
    ELSE IF c \in {"a", "b", "c", "d", "e", "f"} THEN ord(c) - 87
    ELSE ord(c) - 55

\* Characters that are letters or digits: a backslash before one of them is
\* an escape code, before anything else it quotes the character.
AlphaNum == {c \in DOMAIN CharCode : \/ ord(c) \in 48..57
                                      \/ ord(c) \in 65..90
                                      \/ ord(c) \in 97..122}

(***************************************************************************)
(* Python string helpers                                                   *)
(***************************************************************************)

RECURSIVE join(_, _)
\* sep.join(parts)
join(sep, parts) ==
    IF Len(parts) = 0 THEN <<>>
    ELSE IF Len(parts) = 1 THEN parts[1]
    ELSE parts[1] \o sep \o join(sep, Tail(parts))

RECURSIVE NatStr(_)
NatStr(n) ==
    IF n < 10 THEN <<Printable[17 + n]>>
    ELSE NatStr(n \div 10) \o <<Printable[17 + (n % 10)]>>

\* str(n) of an int, as an f-string replacement field formats it
str(n) == IF n < 0 THEN <<"-">> \o NatStr(-n) ELSE NatStr(n)

RECURSIVE int(_)
\* int(s) of a string of decimal digits
int(s) ==
    IF Len(s) = 0 THEN 0
    ELSE 10 * int(SubSeq(s, 1, Len(s) - 1)) + (ord(s[Len(s)]) - 48)

(***************************************************************************)
(* The regular-expression engine: reading a pattern                        *)
(*                                                                         *)
(* Nodes: [t |-> "chr", c], [t |-> "str", s] (a run of literal characters), *)
(*        [t |-> "any"], [t |-> "set", neg, rs],                            *)
(*        [t |-> "bol"], [t |-> "eol"],                                     *)
(*        [t |-> "cat", xs], [t |-> "alt", xs], [t |-> "rep", r, lo, hi]    *)
(* hi = -1 stands for no upper limit.  A parse result is [ok, n, i]:        *)
(* the node read and the index of the first character not yet read.        *)
(***************************************************************************)

Fail(i) == [ok |-> FALSE, n |-> [t |-> "any"], i |-> i]

Good(n, i) == [ok |-> TRUE, n |-> n, i |-> i]

At(p, i, c) == i <= Len(p) /\ p[i] = c

RECURSIVE SkipDigits(_, _)
SkipDigits(p, i) ==
    IF i <= Len(p) /\ p[i] \in DIGITS THEN SkipDigits(p, i + 1) ELSE i

\* A repeat {lo,hi} that opens at p[i] and closes at p[close]; a limit left
\* out is 0 (lo) or none (hi).  "{}" and an unclosed "{" are no repeat.
BraceResult(p, i, lo, hi, close) ==
    [valid |-> ~At(p, i + 1, "}") /\ At(p, close, "}"),
     lo |-> IF Len(lo) = 0 THEN 0 ELSE int(lo),
     hi |-> IF Len(hi) = 0 THEN -1 ELSE int(hi),
     i |-> close + 1]

BraceFrom(p, i, j1) ==
    IF At(p, j1, ",")
    THEN BraceResult(p, i, SubSeq(p, i + 1, j1 - 1),
                     SubSeq(p, j1 + 1, SkipDigits(p, j1 + 1) - 1), SkipDigits(p, j1 + 1))
    ELSE BraceResult(p, i, SubSeq(p, i + 1, j1 - 1), SubSeq(p, i + 1, j1 - 1), j1)

\* A repeat written with braces at p[i] = "{": {m}, {m,n}, {m,} or {,n}.
\* Anything else that starts with "{" is not a repeat and is read literally.
Brace(p, i) == BraceFrom(p, i, SkipDigits(p, i + 1))

NoAtom(i) == [ok |-> FALSE, lo |-> 0, hi |-> 0, i |-> i]

Hex2(p, i) == 16 * HexVal(p[i]) + HexVal(p[i + 1])

\* One member of a character class starting at p[i]: [ok, lo, hi, i].
ClassAtom(p, i) ==
    IF i > Len(p) THEN NoAtom(i)
    ELSE IF p[i] # "\\" THEN [ok |-> TRUE, lo |-> ord(p[i]), hi |-> ord(p[i]), i |-> i + 1]
    ELSE IF i + 1 > Len(p) THEN NoAtom(i)
    ELSE IF p[i + 1] = "x" THEN
        IF i + 3 <= Len(p) /\ p[i + 2] \in HexDigits /\ p[i + 3] \in HexDigits
        THEN [ok |-> TRUE, lo |-> Hex2(p, i + 2), hi |-> Hex2(p, i + 2), i |-> i + 4]
        ELSE NoAtom(i)
    ELSE IF p[i + 1] = "d" THEN [ok |-> TRUE, lo |-> 48, hi |-> 57, i |-> i + 2]
    ELSE IF p[i + 1] = "n" THEN [ok |-> TRUE, lo |-> 10, hi |-> 10, i |-> i + 2]
    ELSE IF p[i + 1] = "t" THEN [ok |-> TRUE, lo |-> 9, hi |-> 9, i |-> i + 2]
    ELSE IF p[i + 1] \in AlphaNum THEN NoAtom(i)
    ELSE [ok |-> TRUE, lo |-> ord(p[i + 1]), hi |-> ord(p[i + 1]), i |-> i + 2]

RECURSIVE ClassItems(_, _, _, _)
RECURSIVE ClassMember(_, _, _, _)
RECURSIVE ClassRange(_, _, _, _, _)

\* The members of a class up to its closing "]"; a "]" that comes first is a member.
ClassItems(p, i, first, rs) ==
    IF i > Len(p) THEN [ok |-> FALSE, rs |-> rs, i |-> i]
    ELSE IF p[i] = "]" /\ ~first THEN [ok |-> TRUE, rs |-> rs, i |-> i + 1]
    ELSE ClassMember(p, i, rs, ClassAtom(p, i))

\* The member a read at p[i]: alone, or the low end of a range a-b.
ClassMember(p, i, rs, a) ==
    IF ~a.ok THEN [ok |-> FALSE, rs |-> rs, i |-> i]
    ELSE IF At(p, a.i, "-") /\ a.i + 1 <= Len(p) /\ p[a.i + 1] # "]"
    THEN ClassRange(p, i, rs, a, ClassAtom(p, a.i + 1))
    ELSE ClassItems(p, a.i, FALSE, rs \cup {<<a.lo, a.hi>>})

ClassRange(p, i, rs, a, b) ==
    IF ~b.ok \/ b.lo < a.lo THEN [ok |-> FALSE, rs |-> rs, i |-> i]
    ELSE ClassItems(p, b.i, FALSE, rs \cup {<<a.lo, b.hi>>})

ClassNode(i, neg, c) ==
    IF c.ok THEN Good([t |-> "set", neg |-> neg, rs |-> c.rs], c.i) ELSE Fail(i)

\* A character class at p[i] = "[".
ParseClass(p, i) ==
    IF At(p, i + 1, "^")
    THEN ClassNode(i, TRUE, ClassItems(p, i + 2, TRUE, {}))
    ELSE ClassNode(i, FALSE, ClassItems(p, i + 1, TRUE, {}))

\* A backslash escape outside a class, at p[i]: \d, \n, \t, \xHH, or a
\* quoted character that is neither a letter nor a digit.
ParseEscape(p, i) ==
    IF i + 1 > Len(p) THEN Fail(i)
    ELSE IF p[i + 1] = "d" THEN Good([t |-> "set", neg |-> FALSE, rs |-> {<<48, 57>>}], i + 2)
    ELSE IF p[i + 1] = "n" THEN Good([t |-> "chr", c |-> "\n"], i + 2)
    ELSE IF p[i + 1] = "t" THEN Good([t |-> "chr", c |-> "\t"], i + 2)
    ELSE IF p[i + 1] = "x" THEN
        IF i + 3 <= Len(p) /\ p[i + 2] \in HexDigits /\ p[i + 3] \in HexDigits
        THEN Good([t |-> "set", neg |-> FALSE,
                   rs |-> {<<Hex2(p, i + 2), Hex2(p, i + 2)>>}], i + 4)
        ELSE Fail(i)
    ELSE IF p[i + 1] \in AlphaNum THEN Fail(i)
    ELSE Good([t |-> "chr", c |-> p[i + 1]], i + 2)

\* The repeat written at p[i], if one is: ?, *, + or braces.
QuantAt(p, i) ==
    IF At(p, i, "?") THEN [valid |-> TRUE, lo |-> 0, hi |-> 1, i |-> i + 1]
    ELSE IF At(p, i, "*") THEN [valid |-> TRUE, lo |-> 0, hi |-> -1, i |-> i + 1]
    ELSE IF At(p, i, "+") THEN [valid |-> TRUE, lo |-> 1, hi |-> -1, i |-> i + 1]
    ELSE IF At(p, i, "{") THEN Brace(p, i)
    ELSE [valid |-> FALSE, lo |-> 0, hi |-> 0, i |-> i]

\* The repeat q applied to n; k is where reading goes on (after the "?" of
\* a lazy repeat).  A second repeat right after the first is an error.
QuantEnd(p, n, q, k) ==
    IF At(p, k, "*") \/ At(p, k, "+") \/ At(p, k, "?")
       \/ (At(p, k, "{") /\ Brace(p, k).valid)
    THEN Fail(k)
    ELSE Good([t |-> "rep", r |-> n, lo |-> q.lo, hi |-> q.hi], k)

Quantified(p, i, n, q) ==
    IF ~q.valid THEN Good(n, i)
    ELSE IF q.hi # -1 /\ q.hi < q.lo THEN Fail(i)
    ELSE QuantEnd(p, n, q, IF At(p, q.i, "?") THEN q.i + 1 ELSE q.i)

\* The repeat, if any, that follows the item n read up to p[i].
ParseQuant(p, i, n) == Quantified(p, i, n, QuantAt(p, i))

\* Characters that are not read as themselves outside a class.
SPECIAL_CHARS == {"(", ")", "[", "\\", ".", "^", "$", "*", "+", "?", "{", "|"}

\* Where the run of literal characters that starts at p[i] stops: at a
\* special character, or at a character that a repeat follows (the repeat
\* applies to that character alone).
RunStops(p, i) ==
    {j \in i..Len(p) : \/ p[j] \in SPECIAL_CHARS
                        \/ (j < Len(p) /\ p[j + 1] \in {"*", "+", "?", "{"})}

RunEnd(p, i) ==
    IF RunStops(p, i) = {} THEN Len(p) + 1
    ELSE CHOOSE j \in RunStops(p, i) : \A k \in RunStops(p, i) : j <= k

\* The literal text p[i..j-1], or the single literal character p[i].
Literal(p, i, j) ==
    IF j > i THEN Good([t |-> "str", s |-> SubSeq(p, i, j - 1)], j)
    ELSE Good([t |-> "chr", c |-> p[i]], i + 1)

RECURSIVE ParseAlt(_, _, _)
RECURSIVE AltCat(_, _, _)
RECURSIVE ParseCat(_, _, _)
RECURSIVE CatItem(_, _, _)
RECURSIVE ParseItem(_, _)
RECURSIVE ParseAtom(_, _)

GroupEnd(p, i, inner) ==
    IF inner.ok /\ At(p, inner.i, ")") THEN Good(inner.n, inner.i + 1) ELSE Fail(i)

\* One item without its repeat.
ParseAtom(p, i) ==
    IF p[i] = "(" THEN
        GroupEnd(p, i, ParseAlt(p, IF At(p, i + 1, "?") /\ At(p, i + 2, ":")
                                   THEN i + 3 ELSE i + 1, <<>>))
    ELSE IF p[i] = "[" THEN ParseClass(p, i)
    ELSE IF p[i] = "\\" THEN ParseEscape(p, i)
    ELSE IF p[i] = "." THEN Good([t |-> "any"], i + 1)
    ELSE IF p[i] = "^" THEN Good([t |-> "bol"], i + 1)
    ELSE IF p[i] = "$" THEN Good([t |-> "eol"], i + 1)
    ELSE IF p[i] \in {"*", "+", "?"} THEN Fail(i)
    ELSE IF p[i] = "{" /\ Brace(p, i).valid THEN Fail(i)
    ELSE Literal(p, i, RunEnd(p, i))

\* A sequence of items, up to "|", ")" or the end.
ParseCat(p, i, acc) ==
    IF i > Len(p) \/ p[i] \in {"|", ")"} THEN Good([t |-> "cat", xs |-> acc], i)
    ELSE CatItem(p, acc, ParseItem(p, i))

CatItem(p, acc, q) ==
    IF ~q.ok THEN q ELSE ParseCat(p, q.i, Append(acc, q.n))

ItemQuant(p, a) == IF ~a.ok THEN a ELSE ParseQuant(p, a.i, a.n)

\* One item with its repeat.
ParseItem(p, i) == ItemQuant(p, ParseAtom(p, i))

\* Alternatives separated by "|".
ParseAlt(p, i, acc) == AltCat(p, acc, ParseCat(p, i, <<>>))

AltCat(p, acc, c) ==
    IF ~c.ok THEN c
    ELSE IF At(p, c.i, "|") THEN ParseAlt(p, c.i + 1, Append(acc, c.n))
    ELSE IF Len(acc) = 0 THEN c
    ELSE Good([t |-> "alt", xs |-> Append(acc, c.n)], c.i)

Whole(p, r) == IF r.ok /\ r.i = Len(p) + 1 THEN r ELSE Fail(r.i)

\* The whole pattern; a pattern that cannot be read is rejected by the engine.
Parse(p) == Whole(p, ParseAlt(p, 1, <<>>))

(***************************************************************************)
(* The regular-expression engine: matching                                 *)
(***************************************************************************)

InRanges(code, rs) == \E r \in rs : r[1] <= code /\ code <= r[2]

RECURSIVE Ends(_, _, _)
RECURSIVE CatEnds(_, _, _, _)
RECURSIVE RepEnds(_, _, _, _, _, _)

\* Positions where a match of node n that starts at position i of s can end.
Ends(n, s, i) ==
    IF n.t = "chr" THEN IF i <= Len(s) /\ s[i] = n.c THEN {i + 1} ELSE {}
    ELSE IF n.t = "str" THEN
        IF i + Len(n.s) - 1 <= Len(s) /\ SubSeq(s, i, i + Len(n.s) - 1) = n.s
        THEN {i + Len(n.s)} ELSE {}
    ELSE IF n.t = "any" THEN IF i <= Len(s) /\ s[i] # "\n" THEN {i + 1} ELSE {}
    ELSE IF n.t = "set" THEN
        IF i <= Len(s) /\ (InRanges(ord(s[i]), n.rs) # n.neg) THEN {i + 1} ELSE {}
    ELSE IF n.t = "bol" THEN IF i = 1 THEN {i} ELSE {}
    ELSE IF n.t = "eol" THEN
        IF i = Len(s) + 1 \/ (i = Len(s) /\ s[i] = "\n") THEN {i} ELSE {}
    ELSE IF n.t = "cat" THEN CatEnds(n.xs, 1, s, {i})
    ELSE IF n.t = "alt" THEN UNION {Ends(n.xs[k], s, i) : k \in 1..Len(n.xs)}
    ELSE RepEnds(n.r, s, {i}, 0, n.lo, IF n.hi = -1 THEN n.lo + Len(s) ELSE n.hi)

CatEnds(xs, k, s, cur) ==
    IF k > Len(xs) \/ cur = {} THEN cur
    ELSE CatEnds(xs, k + 1, s, UNION {Ends(xs[k], s, j) : j \in cur})

\* cur: the positions reached after k repetitions.
RepEnds(r, s, cur, k, lo, hi) ==
    IF cur = {} THEN {}
    ELSE (IF k >= lo THEN cur ELSE {})
         \cup (IF k < hi
               THEN RepEnds(r, s, UNION {Ends(r, s, j) : j \in cur}, k + 1, lo, hi)
               ELSE {})

Matches(r, s) == r.ok /\ (Len(s) + 1) \in Ends(r.n, s, 1)

\* re.fullmatch(pattern, s) is not None
fullmatch(pattern, s) == Matches(Parse(pattern), s)

(***************************************************************************)
(* Python values                                                           *)
(*                                                                         *)
(* An ordered dict is a sequence of <<key, value>> pairs; a JSON object    *)
(* whose keys may be missing is a record, a missing key being a field the  *)
(* record does not have.  A call returns [raised, value]: raised is TRUE   *)
(* when the call ended with an exception (KeyError) and returned nothing.  *)
(***************************************************************************)

KeyError == [raised |-> TRUE, value |-> <<>>]

Returned(s) == [raised |-> FALSE, value |-> s]

\* x in xs, for a Python list xs
IsIn(x, xs) == \E k \in 1..Len(xs) : xs[k] = x

keys(d) == [k \in 1..Len(d) |-> d[k][1]]

values(d) == [k \in 1..Len(d) |-> d[k][2]]

(***************************************************************************)
(* earnings-reports/extraction.py                                          *)
(***************************************************************************)

\* r"\d{4}"
YEAR_REGEX == <<"\\", "d", "{", "4", "}">>

\* r"((-?\d+),?\d+|(\d+))"
INTEGER_COMMA_REGEX ==
    <<"(", "(", "-", "?", "\\", "d", "+", ")", ",", "?", "\\", "d", "+", "|",
      "(", "\\", "d", "+", ")", ")">>

\* NUMBER_REGEX with up to three fractional digits.
NUMBER_REGEX_three_digits ==
    <<"(", "-", "?", "\\", "d", "+", "(", "?", ":", "\\", ".", "\\", "d",
      "{", "1", ",", "3", "}", ")", "?", ")">>

\* r"(-?\d+(?:\.\d{1,2})?)"
NUMBER_REGEX ==
    <<"(", "-", "?", "\\", "d", "+", "(", "?", ":", "\\", ".", "\\", "d",
      "{", "1", ",", "2", "}", ")", "?", ")">>

COLUMN_TYPE_REGEX ==
    [dtype \in {"year", "integer_comma", "number"} |->
        IF dtype = "year" THEN YEAR_REGEX
        ELSE IF dtype = "integer_comma" THEN INTEGER_COMMA_REGEX
        ELSE NUMBER_REGEX]

\* create_regex_pattern with the row quantifier one too wide.
create_regex_pattern_one_more_row(column_types, max_rows) ==
    LET header == join(<<",">>, keys(column_types))
        dtypes == values(column_types)
    IN  IF \E k \in 1..Len(dtypes) : dtypes[k] \notin DOMAIN COLUMN_TYPE_REGEX
        THEN KeyError
        ELSE LET data_patterns == [k \in 1..Len(dtypes) |-> COLUMN_TYPE_REGEX[dtypes[k]]]
                 data_line == join(<<",">>, data_patterns)
             IN  Returned(header \o <<"(", "\n">> \o data_line \o <<")", "{", ",">>
                          \o str(max_rows + 1) \o <<"}", "\n", "\n">>)

\* create_regex_pattern with the values of a row joined without commas.
create_regex_pattern_no_commas(column_types, max_rows) ==
    LET header == join(<<",">>, keys(column_types))
        dtypes == values(column_types)
    IN  IF \E k \in 1..Len(dtypes) : dtypes[k] \notin DOMAIN COLUMN_TYPE_REGEX
        THEN KeyError
        ELSE LET data_patterns == [k \in 1..Len(dtypes) |-> COLUMN_TYPE_REGEX[dtypes[k]]]
                 data_line == join(<<>>, data_patterns)
             IN  Returned(header \o <<"(", "\n">> \o data_line \o <<")", "{", ",">>
                          \o str(max_rows) \o <<"}", "\n", "\n">>)

\* create_regex_pattern with the newline written before the row group.
\* create_regex_pattern with an optional data line in the repeated group
create_regex_pattern_blank_rows(column_types, max_rows) ==
    LET header == join(<<",">>, keys(column_types))
        dtypes == values(column_types)
    IN  IF \E k \in 1..Len(dtypes) : dtypes[k] \notin DOMAIN COLUMN_TYPE_REGEX
        THEN KeyError
        ELSE LET data_patterns == [k \in 1..Len(dtypes) |-> COLUMN_TYPE_REGEX[dtypes[k]]]
                 data_line == join(<<",">>, data_patterns)
             IN  Returned(header \o <<"(", "\n", "(">> \o data_line \o <<")", "?", ")", "{", ",">>
                          \o str(max_rows) \o <<"}", "\n", "\n">>)

create_regex_pattern_newline_first(column_types, max_rows) ==
    LET header == join(<<",">>, keys(column_types))
        dtypes == values(column_types)
    IN  IF \E k \in 1..Len(dtypes) : dtypes[k] \notin DOMAIN COLUMN_TYPE_REGEX
        THEN KeyError
        ELSE LET data_patterns == [k \in 1..Len(dtypes) |-> COLUMN_TYPE_REGEX[dtypes[k]]]
                 data_line == join(<<",">>, data_patterns)
             IN  Returned(header \o <<"\n", "(">> \o data_line \o <<")", "{", ",">>
                          \o str(max_rows) \o <<"}", "\n", "\n">>)

\* create_regex_pattern(column_types, max_rows): column_types is a dict
\* name -> type name, in insertion order.
create_regex_pattern(column_types, max_rows) ==
    LET header == join(<<",">>, keys(column_types))
        dtypes == values(column_types)
    IN  IF \E k \in 1..Len(dtypes) : dtypes[k] \notin DOMAIN COLUMN_TYPE_REGEX
        THEN KeyError
        ELSE LET data_patterns == [k \in 1..Len(dtypes) |-> COLUMN_TYPE_REGEX[dtypes[k]]]
                 data_line == join(<<",">>, data_patterns)
             IN  Returned(header \o <<"(", "\n">> \o data_line \o <<")", "{", ",">>
                          \o str(max_rows) \o <<"}", "\n", "\n">>)

(***************************************************************************)
(* its-a-smol-world/src/smol_mind.py                                       *)
(***************************************************************************)

\* INTEGER with any run of digits.
INTEGER_any_digits == <<"(", "-", ")", "?", "[", "0", "-", "9", "]", "+">>

\* r"(-)?(0|[1-9][0-9]*)"
INTEGER ==
    <<"(", "-", ")", "?", "(", "0", "|", "[", "1", "-", "9", "]",
      "[", "0", "-", "9", "]", "*", ")">>

\* r'([^"\\\x00-\x1F\x7F-\x9F]|\\["\\])'
STRING_INNER ==
    <<"(", "[", "^", "\"", "\\", "\\", "\\", "x", "0", "0", "-", "\\", "x", "1", "F",
      "\\", "x", "7", "F", "-", "\\", "x", "9", "F", "]", "|",
      "\\", "\\", "[", "\"", "\\", "\\", "]", ")">>

\* STRING with a body that may be empty.
STRING_REGEX_empty_body ==
    <<"\"">> \o STRING_INNER \o <<"{", "0", ",", "4", "2", "}", "\"">>

\* STRING = f'"{STRING_INNER}{{1,42}}"'
STRING_REGEX == <<"\"">> \o STRING_INNER \o <<"{", "1", ",", "4", "2", "}", "\"">>

\* rf"({INTEGER})(\.[0-9]+)([eE][+-][0-9]+)?"
FLOAT ==
    <<"(">> \o INTEGER \o
    <<")", "(", "\\", ".", "[", "0", "-", "9", "]", "+", ")",
      "(", "[", "e", "E", "]", "[", "+", "-", "]", "[", "0", "-", "9", "]", "+", ")", "?">>

\* BOOLEAN = r"(true|false)"
BOOLEAN_REGEX == <<"(", "t", "r", "u", "e", "|", "f", "a", "l", "s", "e", ")">>

\* r"null"
NULL == <<"n", "u", "l", "l">>

simple_type_map ==
    [arg_type \in {"string", "any", "integer", "number", "float", "boolean", "null"} |->
        IF arg_type \in {"string", "any"} THEN STRING_REGEX
        ELSE IF arg_type = "integer" THEN INTEGER
        ELSE IF arg_type \in {"number", "float"} THEN FLOAT
        ELSE IF arg_type = "boolean" THEN BOOLEAN_REGEX
        ELSE NULL]

\* The text type_to_regex returns when its except clause catches a KeyError.
NoPropertiesMessage ==
    <<"D", "e", "f", "i", "n", "i", "t", "i", "o", "n", " ", "d", "o", "e", "s", " ",
      "n", "o", "t", " ", "c", "o", "n", "t", "a", "i", "n", " ",
      "'", "p", "r", "o", "p", "e", "r", "t", "i", "e", "s", "'", " ",
      "v", "a", "l", "u", "e", ".">>

\* The first exception among the calls rs, or the list of their values.
AnyRaised(rs) == \E k \in 1..Len(rs) : rs[k].raised

RECURSIVE type_to_regex(_)
RECURSIVE build_dict_regex(_)

\* build_dict_regex with the fields joined by "," alone.
build_dict_regex_no_space(props) ==
    LET rs == [k \in 1..Len(props) |-> type_to_regex(props[k][2])]
    IN  IF AnyRaised(rs) THEN KeyError
        ELSE LET parts == [k \in 1..Len(props) |->
                              <<"\"">> \o props[k][1] \o <<"\"", ":", " ">> \o rs[k].value]
             IN  Returned(<<"\\", "{">> \o join(<<",">>, parts) \o <<"\\", "}">>)

\* build_dict_regex(props): props is a dict field name -> descriptor.
build_dict_regex(props) ==
    LET rs == [k \in 1..Len(props) |-> type_to_regex(props[k][2])]
    IN  IF AnyRaised(rs) THEN KeyError
        ELSE LET parts == [k \in 1..Len(props) |->
                              <<"\"">> \o props[k][1] \o <<"\"", ":", " ">> \o rs[k].value]
             IN  Returned(<<"\\", "{">> \o join(<<",", " ">>, parts) \o <<"\\", "}">>)

\* type_to_regex with room for one more separator in a list.
\* type_to_regex with an optional last element
type_to_regex_optional_last(arg_meta) ==
    IF "type" \notin DOMAIN arg_meta THEN KeyError
    ELSE LET arg_type == IF arg_meta.type = "object" THEN "dict" ELSE arg_meta.type
         IN  IF arg_type = "dict" THEN
                 \* try: build_dict_regex(arg_meta["properties"]) / except KeyError: return
                 IF "properties" \notin DOMAIN arg_meta THEN Returned(NoPropertiesMessage)
                 ELSE LET result == build_dict_regex(arg_meta.properties)
                      IN  IF result.raised THEN Returned(NoPropertiesMessage) ELSE result
             ELSE IF arg_type \in {"array", "tuple"} THEN
                 IF "items" \notin DOMAIN arg_meta THEN KeyError
                 ELSE LET pattern == type_to_regex(arg_meta.items)
                      IN  IF pattern.raised THEN KeyError
                          ELSE Returned(<<"\\", "[", "(">> \o pattern.value
                                        \o <<",", " ", ")", "{", "0", ",", "8", "}", "(">>
                                        \o pattern.value \o <<")", "?", "\\", "]">>)
             ELSE IF arg_type \notin DOMAIN simple_type_map THEN KeyError
             ELSE Returned(simple_type_map[arg_type])

type_to_regex_ten(arg_meta) ==
    IF "type" \notin DOMAIN arg_meta THEN KeyError
    ELSE LET arg_type == IF arg_meta.type = "object" THEN "dict" ELSE arg_meta.type
         IN  IF arg_type = "dict" THEN
                 \* try: build_dict_regex(arg_meta["properties"]) / except KeyError: return
                 IF "properties" \notin DOMAIN arg_meta THEN Returned(NoPropertiesMessage)
                 ELSE LET result == build_dict_regex(arg_meta.properties)
                      IN  IF result.raised THEN Returned(NoPropertiesMessage) ELSE result
             ELSE IF arg_type \in {"array", "tuple"} THEN
                 IF "items" \notin DOMAIN arg_meta THEN KeyError
                 ELSE LET pattern == type_to_regex(arg_meta.items)
                      IN  IF pattern.raised THEN KeyError
                          ELSE Returned(<<"\\", "[", "(">> \o pattern.value
                                        \o <<",", " ", ")", "{", "0", ",", "9", "}">>
                                        \o pattern.value \o <<"\\", "]">>)
             ELSE IF arg_type \notin DOMAIN simple_type_map THEN KeyError
             ELSE Returned(simple_type_map[arg_type])

\* type_to_regex(arg_meta)
type_to_regex(arg_meta) ==
    IF "type" \notin DOMAIN arg_meta THEN KeyError
    ELSE LET arg_type == IF arg_meta.type = "object" THEN "dict" ELSE arg_meta.type
         IN  IF arg_type = "dict" THEN
                 \* try: build_dict_regex(arg_meta["properties"]) / except KeyError: return
                 IF "properties" \notin DOMAIN arg_meta THEN Returned(NoPropertiesMessage)
                 ELSE LET result == build_dict_regex(arg_meta.properties)
                      IN  IF result.raised THEN Returned(NoPropertiesMessage) ELSE result
             ELSE IF arg_type \in {"array", "tuple"} THEN
                 IF "items" \notin DOMAIN arg_meta THEN KeyError
                 ELSE LET pattern == type_to_regex(arg_meta.items)
                      IN  IF pattern.raised THEN KeyError
                          ELSE Returned(<<"\\", "[", "(">> \o pattern.value
                                        \o <<",", " ", ")", "{", "0", ",", "8", "}">>
                                        \o pattern.value \o <<"\\", "]">>)
             ELSE IF arg_type \notin DOMAIN simple_type_map THEN KeyError
             ELSE Returned(simple_type_map[arg_type])

RECURSIVE Select(_, _)
\* [x for x in xs if keep[x]], for a sequence xs and a set keep of its indices
Select(xs, keep) ==
    IF Len(xs) = 0 THEN <<>>
    ELSE Select(SubSeq(xs, 1, Len(xs) - 1), keep)
         \o (IF Len(xs) \in keep THEN <<xs[Len(xs)]>> ELSE <<>>)

\* build_standard_fc_regex with the required arguments optional as well.
build_standard_fc_regex_all_optional(function_data) ==
    IF \/ "name" \notin DOMAIN function_data
       \/ "parameters" \notin DOMAIN function_data
       \/ "properties" \notin DOMAIN function_data.parameters
    THEN KeyError
    ELSE LET props == function_data.parameters.properties
         IN  IF Len(props) > 0 /\ "required" \notin DOMAIN function_data.parameters
             THEN KeyError
             ELSE LET req == {k \in 1..Len(props) :
                                 IsIn(props[k][1], function_data.parameters.required)}
                      rs == [k \in 1..Len(props) |-> type_to_regex(props[k][2])]
                      arg == [k \in 1..Len(props) |-> props[k][1] \o <<"=">> \o rs[k].value]
                      opt == [k \in 1..Len(props) |->
                                 <<"(", ",", " ">> \o arg[k] \o <<")", "?">>]
                      out_re == <<"\\", "[">> \o function_data.name \o <<"\\", "(">>
                      args_part == join(<<",", " ">>, [k \in 1..Len(Select(arg, req)) |->
                                      <<"(">> \o Select(arg, req)[k] \o <<")", "?">>])
                      optional_part == join(<<>>, Select(opt, (1..Len(props)) \ req))
                  IN  IF AnyRaised(rs) THEN KeyError
                      ELSE Returned(out_re \o args_part \o optional_part \o <<"\\", ")", "]">>)

\* build_standard_fc_regex with every optional group repeatable.
build_standard_fc_regex_repeatable(function_data) ==
    IF \/ "name" \notin DOMAIN function_data
       \/ "parameters" \notin DOMAIN function_data
       \/ "properties" \notin DOMAIN function_data.parameters
    THEN KeyError
    ELSE LET props == function_data.parameters.properties
         IN  IF Len(props) > 0 /\ "required" \notin DOMAIN function_data.parameters
             THEN KeyError
             ELSE LET req == {k \in 1..Len(props) :
                                 IsIn(props[k][1], function_data.parameters.required)}
                      rs == [k \in 1..Len(props) |-> type_to_regex(props[k][2])]
                      arg == [k \in 1..Len(props) |-> props[k][1] \o <<"=">> \o rs[k].value]
                      opt == [k \in 1..Len(props) |->
                                 <<"(", ",", " ">> \o arg[k] \o <<")", "*">>]
                      out_re == <<"\\", "[">> \o function_data.name \o <<"\\", "(">>
                      args_part == join(<<",", " ">>, Select(arg, req))
                      optional_part == join(<<>>, Select(opt, (1..Len(props)) \ req))
                  IN  IF AnyRaised(rs) THEN KeyError
                      ELSE Returned(out_re \o args_part \o optional_part \o <<"\\", ")", "]">>)

\* build_standard_fc_regex(function_data)
build_standard_fc_regex(function_data) ==
    IF \/ "name" \notin DOMAIN function_data
       \/ "parameters" \notin DOMAIN function_data
       \/ "properties" \notin DOMAIN function_data.parameters
    THEN KeyError
    ELSE LET props == function_data.parameters.properties
         IN  IF Len(props) > 0 /\ "required" \notin DOMAIN function_data.parameters
             THEN KeyError
             ELSE LET req == {k \in 1..Len(props) :
                                 IsIn(props[k][1], function_data.parameters.required)}
                      rs == [k \in 1..Len(props) |-> type_to_regex(props[k][2])]
                      arg == [k \in 1..Len(props) |-> props[k][1] \o <<"=">> \o rs[k].value]
                      opt == [k \in 1..Len(props) |->
                                 <<"(", ",", " ">> \o arg[k] \o <<")", "?">>]
                      out_re == <<"\\", "[">> \o function_data.name \o <<"\\", "(">>
                      args_part == join(<<",", " ">>, Select(arg, req))
                      optional_part == join(<<>>, Select(opt, (1..Len(props)) \ req))
                  IN  IF AnyRaised(rs) THEN KeyError
                      ELSE Returned(out_re \o args_part \o optional_part \o <<"\\", ")", "]">>)

\* multi_function_fc_regex with the groups joined by nothing.
multi_function_fc_regex_concatenated(fs) ==
    LET rs == [k \in 1..Len(fs) |-> build_standard_fc_regex(fs[k])]
    IN  IF AnyRaised(rs) THEN KeyError
        ELSE Returned(join(<<>>, [k \in 1..Len(fs) |-> <<"(">> \o rs[k].value \o <<")">>]))

\* multi_function_fc_regex(fs)
multi_function_fc_regex(fs) ==
    LET rs == [k \in 1..Len(fs) |-> build_standard_fc_regex(fs[k])]
    IN  IF AnyRaised(rs) THEN KeyError
        ELSE Returned(join(<<"|">>, [k \in 1..Len(fs) |-> <<"(">> \o rs[k].value \o <<")">>]))

(***************************************************************************)
(* State                                                                   *)
(*                                                                         *)
(* One compilation and one candidate output text.  The compiler's input    *)
(* is drawn in the initial state; the compile action stores what the       *)
(* compiler returned; every later action appends to the text and records   *)
(* whether the grammar accepts the text as it then stands.                 *)
(***************************************************************************)
VARIABLES
    pc,            \* where the run is: "start", then "raised" or the writing phases
    column_types,  \* create_regex_pattern's column_types, an ordered dict
    max_rows,      \* create_regex_pattern's max_rows
    function_data, \* build_standard_fc_regex's function_data
    functions,     \* SmolMind.functions, the catalog given to multi_function_fc_regex
    arg_meta,      \* type_to_regex's arg_meta
    column_type,        \* the scalar type name looked up in COLUMN_TYPE_REGEX
    pattern,       \* what the compiler call returned: [raised, value]
    emitted,       \* the pieces written so far, as the writer chose them
    text,          \* the candidate output, a string
    matched,       \* whether pattern.value fully matches text
    tables,        \* the module-level tables COLUMN_TYPE_REGEX and simple_type_map
    calls,         \* the calls in progress: each caller's position and locals
    story,         \* nouscon-24 demo: the Story's characters and main's combat loop
    game,          \* holidays-2024: the SantaGame object
    stressed       \* logs: the locals of one STRESSED.analyze_logs call

vars == <<pc, column_types, max_rows, function_data, functions, arg_meta, column_type,
          pattern, emitted, text, matched,
         tables, calls, story, game, stressed>>

\* The compiler has returned a pattern.
Compiled == pc \notin {"start", "raised"}

\* An input the run does not use.
Unused == <<>>

\* The state of the other demos, which no compiler touches.
demos == <<story, game, stressed>>

\* No other demo is running.
NoDemo == story = Unused /\ game = Unused /\ stressed = Unused

\* The module-level tables as the two modules define them at import.
ModuleState == [COLUMN_TYPE_REGEX |-> COLUMN_TYPE_REGEX, simple_type_map |-> simple_type_map]

NotCompiled == [raised |-> FALSE, value |-> <<>>]

\* Number of occurrences of character c in s.
RECURSIVE count(_, _)
count(s, c) ==
    IF Len(s) = 0 THEN 0
    ELSE count(SubSeq(s, 1, Len(s) - 1), c) + (IF s[Len(s)] = c THEN 1 ELSE 0)

\* Number of characters c that end s.
RECURSIVE trailing(_, _)
trailing(s, c) ==
    IF Len(s) = 0 \/ s[Len(s)] # c THEN 0
    ELSE 1 + trailing(SubSeq(s, 1, Len(s) - 1), c)

(***************************************************************************)
(* CSV grammar: inputs                                                     *)
(***************************************************************************)

\* Largest max_rows drawn.
MaxRows == 2

\* Most newlines appended after the last row.
MaxTrailing == 3

\* Columns a schema is made of: <<name, type name>>.  "integer" is a type
\* name COLUMN_TYPE_REGEX does not have.
Columns ==
    { <<<<"Y", "r">>, "year">>,
      <<<<"r", "e", "v">>, "integer_comma">>,
      <<<<"n", "e", "t">>, "number">>,
      <<<<"q", "t", "y">>, "integer">> }

\* The schemas: up to two columns with distinct names.
TableSchemas ==
    {<<>>} \cup {<<c>> : c \in Columns}
           \cup {s \in {<<c, d>> : c \in Columns, d \in Columns} : s[1][1] # s[2][1]}

\* Values a generator may write in a column of the given type: the spec's
\* examples (1, 2) and a near miss (3).
Sample(dtype, j) ==
    IF dtype = "year"
    THEN <<<<"2", "0", "2", "3">>, <<"2", "0", "2", "2">>, <<"2", "0", "2", "3", "3">>>>[j]
    ELSE IF dtype = "integer_comma"
    THEN <<<<"1", ",", "2", "3", "4">>, <<"9", "8", "7">>,
           <<"1", ",", "2", "3", "4", ",", "5", "6", "7">>>>[j]
    ELSE <<<<"-", "1", "2", ".", "5", "0">>, <<"5", "0", "0">>,
           <<"1", "2", ".", "3", "4", "5">>>>[j]

\* The values of a candidate data line: every column its sample j, but
\* column odd (if any) its near miss.
RowValues(schema, j, odd) ==
    [k \in 1..Len(schema) |-> Sample(schema[k][2], IF k = odd THEN 3 ELSE j)]

\* Well-formed candidate data lines for a schema: one sample per column.
GoodRows(schema) == {join(<<",">>, RowValues(schema, j, 0)) : j \in {1, 2}}

\* Malformed candidate data lines: a near miss in one column, the last
\* value dropped, one value too many.
BadRows(schema) ==
    ({join(<<",">>, RowValues(schema, 1, odd)) : odd \in 1..Len(schema)}
     \cup {join(<<",">>, SubSeq(RowValues(schema, 1, 0), 1, Len(schema) - 1)),
           join(<<",">>, Append(RowValues(schema, 1, 0), <<"7">>))})
    \ GoodRows(schema)

RowCandidates(schema) == GoodRows(schema) \cup BadRows(schema)

\* Candidate header lines: the names in order, and the names in reverse
\* order with the case of the first letter changed.
Reverse(s) == [k \in 1..Len(s) |-> s[Len(s) + 1 - k]]

SwapCase(name) ==
    IF Len(name) > 0 /\ name[1] = "Y" THEN <<"y">> \o Tail(name)
    ELSE IF Len(name) > 0 /\ name[1] = "r" THEN <<"R">> \o Tail(name)
    ELSE name

HeaderCandidates(schema) ==
    { join(<<",">>, keys(schema)),
      join(<<",">>, Reverse([k \in 1..Len(schema) |-> SwapCase(schema[k][1])])) }

(***************************************************************************)
(* CSV grammar: actions                                                    *)
(***************************************************************************)

InitCsv ==
    /\ pc = "start"
    /\ column_types \in TableSchemas
    /\ max_rows \in -1..MaxRows
    /\ function_data = Unused
    /\ functions = Unused
    /\ arg_meta = Unused
    /\ column_type = Unused
    /\ pattern = NotCompiled
    /\ emitted = <<>>
    /\ text = <<>>
    /\ matched = FALSE
    /\ tables = ModuleState
    /\ calls = Unused
    /\ NoDemo

\* Inputs are never written.
inputs == <<column_types, max_rows, function_data, functions, arg_meta, column_type, tables>>

\* extract_financial_metrics: csv_pattern = create_regex_pattern(...)
CreateRegexPattern ==
    /\ pc = "start"
    /\ pattern' = create_regex_pattern(column_types, max_rows)
    /\ pc' = IF pattern'.raised THEN "raised" ELSE "header"
    /\ UNCHANGED <<calls, demos, inputs, emitted, text, matched>>

\* The generator writes a header line.
EmitHeader ==
    /\ pc = "header"
    /\ \E h \in HeaderCandidates(column_types) :
          /\ text' = h
          /\ emitted' = <<h>>
          /\ matched' = fullmatch(pattern.value, h)
    /\ pc' = "rows"
    /\ UNCHANGED <<calls, demos, inputs, pattern>>

\* The generator writes a newline and a data line; a document holds at
\* most one malformed data line.
EmitRow ==
    /\ pc = "rows"
    /\ count(text, "\n") <= max_rows
    /\ \E r \in RowCandidates(column_types) :
          /\ r \in BadRows(column_types) =>
                \A k \in 2..Len(emitted) : emitted[k] \notin BadRows(column_types)
          /\ text' = text \o <<"\n">> \o r
          /\ emitted' = Append(emitted, r)
          /\ matched' = fullmatch(pattern.value, text')
    /\ UNCHANGED <<pc, calls, demos, inputs, pattern>>

\* The generator writes a newline after the last line.
EmitNewline ==
    /\ pc \in {"rows", "end"}
    /\ trailing(text, "\n") < MaxTrailing
    /\ text' = Append(text, "\n")
    /\ matched' = fullmatch(pattern.value, text')
    /\ pc' = "end"
    /\ UNCHANGED <<calls, demos, inputs, pattern, emitted>>

NextCsv == CreateRegexPattern \/ EmitHeader \/ EmitRow \/ EmitNewline

SpecCsv == InitCsv /\ [][NextCsv]_vars

(***************************************************************************)
(* Function calls: inputs                                                  *)
(***************************************************************************)

\* How many arguments a candidate call holds at most.
MaxArgs == 4

IntegerType == [type |-> "integer"]

\* A "properties" dict declaring the given parameters, all integers.
Properties(names) == [k \in 1..Len(names) |-> <<names[k], IntegerType>>]

\* A function manifest entry as load_functions reads it.
Function(name, names, required) ==
    [name |-> name,
     parameters |-> [type |-> "object", properties |-> Properties(names),
                     required |-> required]]

\* The entries given to build_standard_fc_regex: function f, with
\* parameters a, b, c, d declared in several orders, "required" listing a
\* and b in either order, or some of them, or nothing; one entry has no
\* "required" key.
CallSignatures ==
    { Function(<<"f">>, <<<<"a">>, <<"b">>>>, <<<<"a">>, <<"b">>>>),
      Function(<<"f">>, <<<<"a">>, <<"b">>, <<"c">>, <<"d">>>>, <<<<"a">>, <<"b">>>>),
      Function(<<"f">>, <<<<"a">>, <<"b">>, <<"c">>, <<"d">>>>, <<<<"b">>, <<"a">>>>),
      Function(<<"f">>, <<<<"c">>, <<"a">>, <<"d">>, <<"b">>>>, <<<<"a">>, <<"b">>>>),
      Function(<<"f">>, <<<<"b">>, <<"a">>, <<"c">>>>, <<<<"a">>, <<"b">>>>),
      Function(<<"f">>, <<<<"a">>, <<"c">>>>, <<<<"a">>>>),
      Function(<<"f">>, <<<<"c">>, <<"d">>>>, <<>>),
      Function(<<"f">>, <<>>, <<>>),
      [name |-> <<"f">>,
       parameters |-> [type |-> "object", properties |-> Properties(<<<<"a">>>>)]],
      [name |-> <<"f">>,
       parameters |-> [type |-> "object", properties |-> Properties(<<>>)]] }

\* The value a candidate call gives an argument: a=1, b=2, c=3, d=4.
ArgValue(name) ==
    IF name = <<"a">> THEN <<"1">>
    ELSE IF name = <<"b">> THEN <<"2">>
    ELSE IF name = <<"c">> THEN <<"3">>
    ELSE <<"4">>

\* The entries the grammar in use was compiled from.
Signatures == IF functions = Unused THEN <<function_data>> ELSE functions

\* The argument names a candidate call may use: every parameter of the
\* entries, and a.
ArgNamePool ==
    {<<"a">>} \cup UNION {{Signatures[k].parameters.properties[j][1] :
                              j \in 1..Len(Signatures[k].parameters.properties)} :
                          k \in 1..Len(Signatures)}

\* The pieces of a candidate call, and how each is written.
OpenPiece(name) == [kind |-> "open", sep |-> FALSE, name |-> name]

ArgPiece(sep, name) == [kind |-> "arg", sep |-> sep, name |-> name]

ClosePiece == [kind |-> "close", sep |-> FALSE, name |-> <<>>]

Render(piece) ==
    IF piece.kind = "open" THEN <<"[">> \o piece.name \o <<"(">>
    ELSE IF piece.kind = "close" THEN <<")", "]">>
    ELSE (IF piece.sep THEN <<",", " ">> ELSE <<>>)
         \o piece.name \o <<"=">> \o ArgValue(piece.name)

IsArg(piece) == piece.kind = "arg"

\* The arguments written so far, and their names.
Args(pieces) == SelectSeq(pieces, IsArg)

Names(pieces) == [k \in 1..Len(Args(pieces)) |-> Args(pieces)[k].name]

(***************************************************************************)
(* Function calls: actions                                                 *)
(***************************************************************************)

InitCall ==
    /\ pc = "start"
    /\ column_types = Unused
    /\ max_rows = Unused
    /\ function_data \in CallSignatures
    /\ functions = Unused
    /\ arg_meta = Unused
    /\ column_type = Unused
    /\ pattern = NotCompiled
    /\ emitted = <<>>
    /\ text = <<>>
    /\ matched = FALSE
    /\ tables = ModuleState
    /\ calls = Unused
    /\ NoDemo

\* build_standard_fc_regex(function_data) is called.
BuildStandardFcRegex ==
    /\ pc = "start"
    /\ function_data # Unused
    /\ pattern' = build_standard_fc_regex(function_data)
    /\ pc' = IF pattern'.raised THEN "raised" ELSE "call"
    /\ UNCHANGED <<calls, demos, inputs, emitted, text, matched>>

\* The generator writes one piece of a call.
Write(piece) ==
    /\ emitted' = Append(emitted, piece)
    /\ text' = text \o Render(piece)
    /\ matched' = fullmatch(pattern.value, text')
    /\ UNCHANGED <<calls, demos, inputs, pattern>>

\* "[", a function name of the manifest, "(".
EmitCallOpen ==
    /\ pc = "call"
    /\ \E k \in 1..Len(Signatures) : Write(OpenPiece(Signatures[k].name))
    /\ pc' = "args"

\* An argument "name=value"; after the first argument always behind ", ",
\* as the first argument with or without it.
EmitArg ==
    /\ pc = "args"
    /\ Len(Args(emitted)) < MaxArgs
    /\ \E name \in ArgNamePool :
          \E sep \in IF Args(emitted) = <<>> THEN {FALSE, TRUE} ELSE {TRUE} :
              Write(ArgPiece(sep, name))
    /\ pc' = "args"

\* ")]"
EmitCallClose ==
    /\ pc = "args"
    /\ Write(ClosePiece)
    /\ pc' = "closed"

NextCall == BuildStandardFcRegex \/ EmitCallOpen \/ EmitArg \/ EmitCallClose

SpecCall == InitCall /\ [][NextCall]_vars

(***************************************************************************)
(* Function calls: properties                                              *)
(***************************************************************************)

\* C13 as stated: for every signature whose parameters have no "required"
\* key, a signature with an empty "properties" mapping included,
\* build_standard_fc_regex raises and returns no pattern.
MissingRequiredRaises ==
    (pc # "start" /\ "required" \notin DOMAIN function_data.parameters) => pattern.raised

InRequired(name) == IsIn(name, function_data.parameters.required)

NotInRequired(name) == ~InRequired(name)

\* The required and the optional parameters of function_data, in the
\* order the manifest declares them.
RequiredParams == SelectSeq(keys(function_data.parameters.properties), InRequired)

OptionalParams == SelectSeq(keys(function_data.parameters.properties), NotInRequired)

\* The first argument is written without a separator before it.
PlainCall == \A k \in 1..Len(Args(emitted)) : Args(emitted)[k].sep = (k > 1)

\* C29 as stated: in every accepted call the first argument follows "("
\* directly and each later argument follows ", "; for a function with no
\* required parameters and an optional parameter c, "[f(c=3)]" is accepted.
SeparatorsWellFormed ==
    pc = "closed" =>
        /\ matched => PlainCall
        /\ (/\ RequiredParams = <<>>
            /\ IsIn(<<"c">>, OptionalParams)
            /\ PlainCall
            /\ Names(emitted) = <<<<"c">>>>) => matched

\* C5: for a function with required parameters [a, b] the grammar accepts
\* "[f(a=1, b=2)]", and every call it accepts names a and then b as its
\* first two arguments and names neither again: a call that omits a
\* required argument or lists them in another order is rejected.
RequiredMandatory ==
    (pc = "closed" /\ RequiredParams = <<<<"a">>, <<"b">>>>) =>
        /\ (PlainCall /\ Names(emitted) = <<<<"a">>, <<"b">>>>) => matched
        /\ matched =>
              /\ Len(Names(emitted)) >= 2
              /\ SubSeq(Names(emitted), 1, 2) = <<<<"a">>, <<"b">>>>
              /\ SelectSeq(Names(emitted), InRequired) = <<<<"a">>, <<"b">>>>

\* "[f(b=2, a=1)]" has been written for required parameters [a, b].
RequiredMandatoryWitness ==
    /\ pc = "closed"
    /\ RequiredParams = <<<<"a">>, <<"b">>>>
    /\ PlainCall
    /\ Names(emitted) = <<<<"b">>, <<"a">>>>
    /\ ~matched

\* C6: for a function with required [a, b] and optional [c, d] the
\* grammar accepts exactly the calls "a=1, b=2" followed by nothing, by c,
\* by d, or by c and then d: d before c is rejected, a repeated optional
\* argument is rejected, and no optional argument precedes a required one.
OptionalOrdered ==
    (/\ pc = "closed"
     /\ RequiredParams = <<<<"a">>, <<"b">>>>
     /\ OptionalParams = <<<<"c">>, <<"d">>>>) =>
        (matched <=>
            /\ PlainCall
            /\ Names(emitted) \in
                  { <<<<"a">>, <<"b">>>>,
                    <<<<"a">>, <<"b">>, <<"c">>>>,
                    <<<<"a">>, <<"b">>, <<"d">>>>,
                    <<<<"a">>, <<"b">>, <<"c">>, <<"d">>>> })

\* "[f(a=1, b=2, d=4)]" has been written and accepted, c declared before
\* a in the manifest.
OptionalOrderedWitness ==
    /\ pc = "closed"
    /\ keys(function_data.parameters.properties) = <<<<"c">>, <<"a">>, <<"d">>, <<"b">>>>
    /\ RequiredParams = <<<<"a">>, <<"b">>>>
    /\ Names(emitted) = <<<<"a">>, <<"b">>, <<"d">>>>
    /\ matched

(***************************************************************************)
(* Function catalogs                                                       *)
(***************************************************************************)

\* The catalogs given to multi_function_fc_regex: one or two entries with
\* distinct names f and g, whose parameter sets are disjoint, overlap, or
\* are empty; in the last catalog g has no "required" key.
Catalogs ==
    { <<Function(<<"f">>, <<<<"a">>, <<"c">>>>, <<<<"a">>>>)>>,
      <<Function(<<"f">>, <<<<"a">>, <<"c">>>>, <<<<"a">>>>),
        Function(<<"g">>, <<<<"b">>>>, <<<<"b">>>>)>>,
      <<Function(<<"g">>, <<<<"b">>>>, <<<<"b">>>>),
        Function(<<"f">>, <<<<"a">>, <<"c">>>>, <<<<"a">>>>)>>,
      <<Function(<<"f">>, <<<<"a">>, <<"c">>>>, <<<<"a">>>>),
        Function(<<"g">>, <<<<"a">>, <<"b">>>>, <<<<"a">>, <<"b">>>>)>>,
      <<Function(<<"f">>, <<<<"a">>>>, <<<<"a">>>>),
        Function(<<"g">>, <<<<"c">>>>, <<>>)>>,
      <<Function(<<"f">>, <<>>, <<>>),
        Function(<<"g">>, <<<<"b">>>>, <<<<"b">>>>)>>,
      <<Function(<<"f">>, <<<<"a">>>>, <<<<"a">>>>),
        [name |-> <<"g">>,
         parameters |-> [type |-> "object", properties |-> Properties(<<<<"b">>>>)]]>> }

InitCatalog ==
    /\ pc = "start"
    /\ column_types = Unused
    /\ max_rows = Unused
    /\ function_data = Unused
    /\ functions \in Catalogs
    /\ arg_meta = Unused
    /\ column_type = Unused
    /\ pattern = NotCompiled
    /\ emitted = <<>>
    /\ text = <<>>
    /\ matched = FALSE
    /\ tables = ModuleState
    /\ calls = Unused
    /\ NoDemo

\* SmolMind.__init__: self.fc_regex = multi_function_fc_regex(functions)
MultiFunctionFcRegex ==
    /\ pc = "start"
    /\ functions # Unused
    /\ pattern' = multi_function_fc_regex(functions)
    /\ pc' = IF pattern'.raised THEN "raised" ELSE "call"
    /\ UNCHANGED <<calls, demos, inputs, emitted, text, matched>>

\* A whole call of entry fd with its required arguments, as one piece.
CallPiece(name) == [kind |-> "call", sep |-> FALSE, name |-> name]

RequiredOf(fd) ==
    LET props == keys(fd.parameters.properties)
    IN  Select(props, {k \in 1..Len(props) : IsIn(props[k], fd.parameters.required)})

RenderCall(fd) ==
    <<"[">> \o fd.name \o <<"(">>
    \o join(<<",", " ">>, [k \in 1..Len(RequiredOf(fd)) |->
                              RequiredOf(fd)[k] \o <<"=">> \o ArgValue(RequiredOf(fd)[k])])
    \o <<")", "]">>

\* After a complete call the generator writes a second complete call.
EmitSecondCall ==
    /\ pc = "closed"
    /\ \E k \in 1..Len(functions) :
          /\ emitted' = Append(emitted, CallPiece(functions[k].name))
          /\ text' = text \o RenderCall(functions[k])
          /\ matched' = fullmatch(pattern.value, text')
    /\ pc' = "end"
    /\ UNCHANGED <<calls, demos, inputs, pattern>>

NextCatalog ==
    MultiFunctionFcRegex \/ EmitCallOpen \/ EmitArg \/ EmitCallClose \/ EmitSecondCall

SpecCatalog == InitCatalog /\ [][NextCatalog]_vars

\* The grammar of entry fd alone accepts s.
Accepts(fd, s) == fullmatch(build_standard_fc_regex(fd).value, s)

\* The pieces are "[name(", arguments, ")]" and nothing else.
OneCall(pieces) ==
    /\ Len(pieces) >= 2
    /\ pieces[1].kind = "open"
    /\ pieces[Len(pieces)].kind = "close"
    /\ \A k \in 2..(Len(pieces) - 1) : pieces[k].kind = "arg"

\* The entries of the catalog whose name the call names, whose parameters
\* include every argument the call names, and whose grammar accepts it.
Called ==
    {k \in 1..Len(functions) :
        /\ functions[k].name = emitted[1].name
        /\ \A j \in 1..Len(Names(emitted)) :
              IsIn(Names(emitted)[j], keys(functions[k].parameters.properties))
        /\ Accepts(functions[k], text)}

\* C7: the catalog grammar accepts a text if and only if the grammar of
\* one catalog function accepts it; an accepted text is one complete call,
\* it is a call to exactly one catalog function, named by it and with only
\* that function's parameters: no call mixes one function's name with
\* another's parameters, and no text holding two calls is accepted.
MultiAlternation ==
    (functions # Unused /\ Compiled) =>
        /\ matched <=> \E k \in 1..Len(functions) : Accepts(functions[k], text)
        /\ matched => (OneCall(emitted) /\ Cardinality(Called) = 1)

\* "[g(a=1)]", g's name with f's parameter, has been written for a
\* catalog in which a is a parameter of f alone.
MultiAlternationWitness ==
    /\ functions # Unused
    /\ pc = "closed"
    /\ Len(functions) = 2
    /\ functions[2].name = <<"g">>
    /\ keys(functions[2].parameters.properties) = <<<<"b">>>>
    /\ emitted[1].name = <<"g">>
    /\ PlainCall
    /\ Names(emitted) = <<<<"a">>>>
    /\ ~matched

(***************************************************************************)
(* Type descriptors                                                        *)
(***************************************************************************)

\* How many elements a candidate list holds at most.
MaxElements == 10

\* How many fields a candidate object holds at most.
MaxFields == 3

Simple(type_name) == [type |-> type_name]

Object(props) == [type |-> "object", properties |-> props]

Array(items) == [type |-> "array", items |-> items]

\* A descriptor that states a maximum number of elements.
ArrayMax(items, n) == [type |-> "array", items |-> items, maxItems |-> n]

\* The descriptors given to type_to_regex.  "uuid" is in no type table.
TypeDescriptors ==
    { Simple("integer"), Simple("boolean"), Simple("null"), Simple("uuid"),
      Object(<<<< <<"x">>, Simple("integer") >>>>),
      Object(<<<< <<"x">>, Simple("integer") >>, << <<"y">>, Simple("boolean") >>>>),
      Object(<<<< <<"x">>, Simple("uuid") >>>>),
      Object(<<<< <<"x">>, Simple("integer") >>, << <<"y">>, Array(Simple("uuid")) >>>>),
      Object(<<<< <<"o">>, Object(<<<< <<"x">>, Simple("uuid") >>>>) >>>>),
      Object(<<<< <<"o">>, Object(<<<< <<"x">>, Simple("integer") >>>>) >>>>),
      Object(<<>>),
      [type |-> "object"],
      [type |-> "dict"],
      Array([type |-> "object"]),
      Array(Simple("integer")),
      Array(Simple("uuid")),
      Array(Object(<<<< <<"x">>, Simple("integer") >>>>)),
      ArrayMax(Object(<<<< <<"x">>, Simple("integer") >>>>), 3),
      ArrayMax(Simple("integer"), 3),
      ArrayMax(Object(<<<< <<"x">>, Simple("integer") >>, << <<"y">>, Simple("boolean") >>>>), 3),
      Array(Object(<<<< <<"x">>, Simple("uuid") >>>>)),
      [type |-> "tuple", items |-> Simple("boolean")],
      [type |-> "array"] }

IsList(meta) == meta.type \in {"array", "tuple"}

IsObject(meta) == meta.type \in {"object", "dict"}

\* The descriptor or one nested in it, at any depth, names a type that is
\* in no type table.
RECURSIVE HasUnknownType(_)
HasUnknownType(meta) ==
    IF IsObject(meta)
    THEN "properties" \in DOMAIN meta
         /\ \E k \in 1..Len(meta.properties) : HasUnknownType(meta.properties[k][2])
    ELSE IF IsList(meta)
    THEN "items" \in DOMAIN meta /\ HasUnknownType(meta.items)
    ELSE meta.type \notin DOMAIN simple_type_map

\* The descriptors a candidate value is written for: integers, booleans
\* and objects of such fields.
RECURSIVE HasLiteral(_)
HasLiteral(meta) ==
    IF IsObject(meta)
    THEN "properties" \in DOMAIN meta
         /\ \A k \in 1..Len(meta.properties) : HasLiteral(meta.properties[k][2])
    ELSE meta.type \in {"integer", "boolean"}

\* A value of the descriptor's type as the prompt asks for it: 7, true,
\* {"x": 7, "y": true}.
RECURSIVE GoodLiteral(_)
GoodLiteral(meta) ==
    IF meta.type = "integer" THEN <<"7">>
    ELSE IF meta.type = "boolean" THEN <<"t", "r", "u", "e">>
    ELSE <<"{">>
         \o join(<<",", " ">>,
                 [k \in 1..Len(meta.properties) |->
                     <<"\"">> \o meta.properties[k][1] \o <<"\"", ":", " ">>
                     \o GoodLiteral(meta.properties[k][2])])
         \o <<"}">>

\* A value that misses the type: 07, True, an object without the space
\* after the colons, and 7 for every other descriptor.
BadLiteral(meta) ==
    IF ~HasLiteral(meta) THEN <<"7">>
    ELSE IF meta.type = "integer" THEN <<"0", "7">>
    ELSE IF meta.type = "boolean" THEN <<"T", "r", "u", "e">>
    ELSE <<"{">>
         \o join(<<",", " ">>,
                 [k \in 1..Len(meta.properties) |->
                     <<"\"">> \o meta.properties[k][1] \o <<"\"", ":">>
                     \o GoodLiteral(meta.properties[k][2])])
         \o <<"}">>

\* The pieces of a candidate value; good tells a well-formed element.
ValuePiece(kind, good) == [kind |-> kind, good |-> good]

Elements(pieces) == {k \in 1..Len(pieces) : pieces[k].kind = "element"}

AllGood(pieces) == \A k \in Elements(pieces) : pieces[k].good

InitType ==
    /\ pc = "start"
    /\ column_types = Unused
    /\ max_rows = Unused
    /\ function_data = Unused
    /\ functions = Unused
    /\ arg_meta \in TypeDescriptors
    /\ column_type = Unused
    /\ pattern = NotCompiled
    /\ emitted = <<>>
    /\ text = <<>>
    /\ matched = FALSE
    /\ tables = ModuleState
    /\ calls = Unused
    /\ NoDemo

\* type_to_regex(arg_meta) is called.
TypeToRegex ==
    /\ pc = "start"
    /\ arg_meta # Unused
    /\ pattern' = type_to_regex(arg_meta)
    /\ pc' = IF pattern'.raised THEN "raised" ELSE "value"
    /\ UNCHANGED <<calls, demos, inputs, emitted, text, matched>>

\* The generator writes s, recorded as the given piece.
WriteValue(piece, s) ==
    /\ emitted' = Append(emitted, piece)
    /\ text' = text \o s
    /\ matched' = fullmatch(pattern.value, text')
    /\ UNCHANGED <<calls, demos, inputs, pattern>>

\* A value that is no list, written in one piece.
EmitValue ==
    /\ pc = "value"
    /\ ~IsList(arg_meta)
    /\ \/ HasLiteral(arg_meta) /\ WriteValue(ValuePiece("value", TRUE), GoodLiteral(arg_meta))
       \/ /\ HasLiteral(arg_meta) => BadLiteral(arg_meta) # GoodLiteral(arg_meta)
          /\ WriteValue(ValuePiece("value", FALSE), BadLiteral(arg_meta))
    /\ pc' = "closed"

\* "["
EmitListOpen ==
    /\ pc = "value"
    /\ IsList(arg_meta)
    /\ WriteValue(ValuePiece("open", TRUE), <<"[">>)
    /\ pc' = "elements"

\* An element, behind ", " unless it is the first; a list holds at most
\* one malformed element.
EmitElement ==
    /\ pc = "elements"
    /\ Cardinality(Elements(emitted)) < MaxElements
    /\ LET sep == IF Elements(emitted) = {} THEN <<>> ELSE <<",", " ">>
       IN  \/ /\ HasLiteral(arg_meta.items)
              /\ WriteValue(ValuePiece("element", TRUE), sep \o GoodLiteral(arg_meta.items))
           \/ /\ AllGood(emitted)
              /\ WriteValue(ValuePiece("element", FALSE), sep \o BadLiteral(arg_meta.items))
    /\ pc' = "elements"

\* "]"
EmitListClose ==
    /\ pc = "elements"
    /\ WriteValue(ValuePiece("close", TRUE), <<"]">>)
    /\ pc' = "closed"

\* Field k of the object, written as "name": value, as "name":value, or
\* with a value that misses the field's type.
FieldPiece(k, form) == [kind |-> "field", good |-> form = "good", field |-> k]

RenderField(meta, k, form) ==
    <<"\"">> \o meta.properties[k][1] \o <<"\"", ":">>
    \o (IF form = "nospace" THEN <<>> ELSE <<" ">>)
    \o (IF form = "badvalue" THEN BadLiteral(meta.properties[k][2])
        ELSE GoodLiteral(meta.properties[k][2]))

IsField(piece) == piece.kind = "field"

Fields(pieces) == SelectSeq(pieces, IsField)

\* "{"
EmitObjectOpen ==
    /\ pc = "value"
    /\ IsObject(arg_meta)
    /\ HasLiteral(arg_meta)
    /\ WriteValue(ValuePiece("open", TRUE), <<"{">>)
    /\ pc' = "fields"

\* One of the object's fields, in any order, behind ", " unless it is the
\* first.
EmitField ==
    /\ pc = "fields"
    /\ Len(Fields(emitted)) < MaxFields
    /\ \E k \in 1..Len(arg_meta.properties) :
          \E form \in {"good", "nospace", "badvalue"} :
              WriteValue(FieldPiece(k, form),
                         (IF Fields(emitted) = <<>> THEN <<>> ELSE <<",", " ">>)
                         \o RenderField(arg_meta, k, form))
    /\ pc' = "fields"

\* "}"
EmitObjectClose ==
    /\ pc = "fields"
    /\ WriteValue(ValuePiece("close", TRUE), <<"}">>)
    /\ pc' = "closed"

NextType ==
    \/ TypeToRegex
    \/ EmitValue
    \/ EmitListOpen
    \/ EmitElement
    \/ EmitListClose
    \/ EmitObjectOpen
    \/ EmitField
    \/ EmitObjectClose

SpecType == InitType /\ [][NextType]_vars

(***************************************************************************)
(* Type descriptors: properties                                            *)
(***************************************************************************)

\* C4 as stated, for type_to_regex: when the descriptor names an unknown
\* type at any position (itself, an array's items, a field nested in an
\* object), the call raises and returns no pattern.
FastFail ==
    (arg_meta # Unused /\ pc # "start" /\ HasUnknownType(arg_meta)) => pattern.raised

\* The descriptor or one nested in it is an object (or dict) without a
\* "properties" key.
RECURSIVE HasBareObject(_)
HasBareObject(meta) ==
    IF IsObject(meta)
    THEN "properties" \notin DOMAIN meta
         \/ \E k \in 1..Len(meta.properties) : HasBareObject(meta.properties[k][2])
    ELSE IsList(meta) /\ "items" \in DOMAIN meta /\ HasBareObject(meta.items)

\* s occurs in t as a run of consecutive characters.
Occurs(s, t) == \E i \in 0..(Len(t) - Len(s)) : SubSeq(t, i + 1, i + Len(s)) = s

\* C12 as stated: compiling an object (or dict) descriptor without a
\* "properties" key raises; no string is returned, and no returned
\* pattern holds the text of an error message.
MalformedObjectRaises ==
    (arg_meta # Unused /\ pc # "start") =>
        /\ HasBareObject(arg_meta) => pattern.raised
        /\ ~pattern.raised => ~Occurs(NoPropertiesMessage, pattern.value)

\* A complete value has been written for an object of known field types.
ObjectClosed ==
    /\ arg_meta # Unused
    /\ pc = "closed"
    /\ IsObject(arg_meta)
    /\ HasLiteral(arg_meta)

\* The fields written are the declared fields, each once, in declared
\* order, each as "name": and one space and a value of the field's type.
FieldsAsDeclared ==
    /\ Len(Fields(emitted)) = Len(arg_meta.properties)
    /\ \A k \in 1..Len(Fields(emitted)) :
          Fields(emitted)[k].field = k /\ Fields(emitted)[k].good

\* C15: for an object type with fields f1..fn in declared order, a text is
\* accepted by build_dict_regex's pattern if and only if it is "{", then
\* for each field in declared order "name": followed by one space and a
\* value matching the field's type, the pairs joined by ", ", then "}"; no
\* field is omitted, repeated or reordered.
ObjectPattern ==
    ObjectClosed =>
        (matched <=> IF emitted[1].kind = "value" THEN emitted[1].good
                     ELSE FieldsAsDeclared)

\* "{"y": true, "x": 7}" has been written for fields x, y and rejected.
ObjectPatternWitness ==
    /\ ObjectClosed
    /\ Len(arg_meta.properties) = 2
    /\ Len(Fields(emitted)) = 2
    /\ Fields(emitted)[1] = FieldPiece(2, "good")
    /\ Fields(emitted)[2] = FieldPiece(1, "good")
    /\ ~matched

\* The list is complete and an array of objects was asked for.
ObjectListClosed ==
    /\ arg_meta # Unused
    /\ pc = "closed"
    /\ IsList(arg_meta)
    /\ IsObject(arg_meta.items)
    /\ HasLiteral(arg_meta.items)

ListClosed ==
    /\ arg_meta # Unused
    /\ pc = "closed"
    /\ IsList(arg_meta)
    /\ HasLiteral(arg_meta.items)

MaxChars == 5

\* The characters such a value is written from.
ValueAlphabet == {"0", "1", "-", ".", ","}

\* The values the specification quotes.
QuotedValues ==
    { <<"2", "0", "2", "3">>,
      <<"2", "0", "2", "3", "3">>,
      <<"-", "1", "2", ".", "5", "0">>,
      <<"1", "2", ".", "3", "4", "5">>,
      <<"1", "2", ".">>,
      <<"1", ",", "2", "3", "4", ",", "5", "6", "7">>,
      <<"1", "2", "3", "4", "5", "6", "7">>,
      <<"1", ",", "2", "3", "4">>,
      <<"-", "5">>,
      <<"n", "u", "l", "l">>,
      <<"N", "U", "L", "L">> }

InitFragment ==
    /\ pc = "start"
    /\ column_types = Unused
    /\ max_rows = Unused
    /\ function_data = Unused
    /\ functions = Unused
    /\ arg_meta = Unused
    /\ column_type \in {"year", "integer_comma", "number", "integer",
                        "nullable_integer", "nullable_number"}
    /\ pattern = NotCompiled
    /\ emitted = <<>>
    /\ text = <<>>
    /\ matched = FALSE
    /\ tables = ModuleState
    /\ calls = Unused
    /\ NoDemo

\* COLUMN_TYPE_REGEX[dtype]
LookUpFragment ==
    /\ pc = "start"
    /\ pattern' = IF column_type \in DOMAIN COLUMN_TYPE_REGEX
                  THEN Returned(COLUMN_TYPE_REGEX[column_type])
                  ELSE KeyError
    /\ pc' = IF pattern'.raised THEN "raised" ELSE "chars"
    /\ UNCHANGED <<calls, demos, inputs, emitted, text, matched>>

\* The generator writes one more character of a value.
EmitChar ==
    /\ pc = "chars"
    /\ Len(text) < MaxChars
    /\ \E c \in ValueAlphabet :
          /\ text' = Append(text, c)
          /\ matched' = fullmatch(pattern.value, text')
    /\ UNCHANGED <<pc, calls, demos, inputs, pattern, emitted>>

\* The generator writes one of the quoted values.
EmitQuoted ==
    /\ pc = "chars"
    /\ text = <<>>
    /\ \E v \in QuotedValues :
          /\ text' = v
          /\ matched' = fullmatch(pattern.value, v)
    /\ pc' = "quoted"
    /\ UNCHANGED <<calls, demos, inputs, pattern, emitted>>

NextFragment == LookUpFragment \/ EmitChar \/ EmitQuoted

SpecFragment == InitFragment /\ [][NextFragment]_vars

\* C9 as stated: the integer_comma fragment accepts "1,234,567" and
\* "1234567".
ThousandsSeparated ==
    (Compiled /\ column_type = "integer_comma"
     /\ text \in {<<"1", ",", "2", "3", "4", ",", "5", "6", "7">>,
                  <<"1", "2", "3", "4", "5", "6", "7">>}) => matched

\* C11 as stated: the type table resolves nullable_integer and
\* nullable_number to fragments, and these accept the token null.
NullableScalars ==
    (pc # "start" /\ column_type \in {"nullable_integer", "nullable_number"}) =>
        /\ ~pattern.raised
        /\ text = <<"n", "u", "l", "l">> => matched

\* C20 as stated: a kind name that both tables know resolves to fragments
\* accepting the same strings in COLUMN_TYPE_REGEX and in simple_type_map.
SingleSourceOfTruth ==
    (Compiled /\ column_type \in DOMAIN COLUMN_TYPE_REGEX \cap DOMAIN simple_type_map) =>
        (matched <=> fullmatch(simple_type_map[column_type], text))

AllDigits(s) == \A i \in 1..Len(s) : s[i] \in DIGITS

\* Four digits.
IsYear(s) == Len(s) = 4 /\ AllDigits(s)

Unsigned(s) == IF Len(s) > 0 /\ s[1] = "-" THEN Tail(s) ELSE s

Dots(s) == {i \in 1..Len(s) : s[i] = "."}

\* One or more digits, then nothing or "." and one or two digits.
IsDecimal(s) ==
    IF Dots(s) = {}
    THEN Len(s) >= 1 /\ AllDigits(s)
    ELSE /\ Cardinality(Dots(s)) = 1
         /\ \A d \in Dots(s) :
               /\ d >= 2
               /\ Len(s) - d \in {1, 2}
               /\ AllDigits(SubSeq(s, 1, d - 1))
               /\ AllDigits(SubSeq(s, d + 1, Len(s)))

\* An optional minus and a decimal.
IsNumber(s) == IsDecimal(Unsigned(s))

\* An optional minus and one or more digits.
IsPlainInteger(s) == Len(Unsigned(s)) >= 1 /\ AllDigits(Unsigned(s))

\* C27 as stated: the integer_comma fragment matches every string made of
\* an optional leading minus and one or more digits, "-5" included.
PlainIntegersAccepted ==
    (Compiled /\ column_type = "integer_comma" /\ IsPlainInteger(text)) => matched

\* C10: the year fragment accepts exactly the strings of four digits
\* ("2023" yes, "20233" no); the number fragment accepts exactly an
\* optional minus, one or more digits and an optional "." followed by one
\* or two digits ("-12.50" yes, "12.345" no, "12." no).
YearAndNumber ==
    Compiled =>
        /\ column_type = "year" => (matched <=> IsYear(text))
        /\ column_type = "number" => (matched <=> IsNumber(text))

\* "-12.50" has been written for a number column and accepted.
YearAndNumberWitness ==
    /\ column_type = "number"
    /\ text = <<"-", "1", "2", ".", "5", "0">>
    /\ matched

(***************************************************************************)
(* Scalar parameters of a function call, each matched in isolation         *)
(***************************************************************************)

\* How many items a candidate string body holds at most.
MaxItems == 43

\* The characters a candidate integer is written from.
IntegerAlphabet == {"0", "7", "-"}

\* The items a candidate string body is written from.  plain: the letter a.
\* Well-formed others: a space, an escaped quote, an escaped backslash.
\* Malformed: a bare quote, a bare backslash, a newline.
StringItem(form) ==
    IF form = "plain" THEN <<"a">>
    ELSE IF form = "space" THEN <<" ">>
    ELSE IF form = "escaped quote" THEN <<"\\", "\"">>
    ELSE IF form = "escaped backslash" THEN <<"\\", "\\">>
    ELSE IF form = "quote" THEN <<"\"">>
    ELSE IF form = "backslash" THEN <<"\\">>
    ELSE <<"\n">>

GoodItems == {"plain", "space", "escaped quote", "escaped backslash"}

BadItems == {"quote", "backslash", "newline"}

ItemPiece(form) == [kind |-> "item", good |-> form \in GoodItems, form |-> form]

Items(pieces) == {k \in 1..Len(pieces) : pieces[k].kind = "item"}

InitScalar ==
    /\ pc = "start"
    /\ column_types = Unused
    /\ max_rows = Unused
    /\ function_data = Unused
    /\ functions = Unused
    /\ arg_meta \in {Simple("integer"), Simple("string")}
    /\ column_type = Unused
    /\ pattern = NotCompiled
    /\ emitted = <<>>
    /\ text = <<>>
    /\ matched = FALSE
    /\ tables = ModuleState
    /\ calls = Unused
    /\ NoDemo

\* The generator writes one more character of an integer.
EmitIntegerChar ==
    /\ pc = "value"
    /\ arg_meta.type = "integer"
    /\ Len(text) < MaxChars
    /\ \E c \in IntegerAlphabet :
          /\ text' = Append(text, c)
          /\ matched' = fullmatch(pattern.value, text')
    /\ UNCHANGED <<pc, calls, demos, inputs, pattern, emitted>>

\* The opening quote of a string.
EmitStringOpen ==
    /\ pc = "value"
    /\ arg_meta.type = "string"
    /\ WriteValue(ValuePiece("open", TRUE), <<"\"">>)
    /\ pc' = "body"

\* One more item of the body; a body holds at most one item that is not
\* the letter a.
EmitItem ==
    /\ pc = "body"
    /\ Cardinality(Items(emitted)) < MaxItems
    /\ \E form \in GoodItems \cup BadItems :
          /\ form # "plain" => \A k \in Items(emitted) : emitted[k].form = "plain"
          /\ WriteValue(ItemPiece(form), StringItem(form))
    /\ pc' = "body"

\* The closing quote.
EmitStringClose ==
    /\ pc = "body"
    /\ WriteValue(ValuePiece("close", TRUE), <<"\"">>)
    /\ pc' = "closed"

NextScalar ==
    TypeToRegex \/ EmitIntegerChar \/ EmitStringOpen \/ EmitItem \/ EmitStringClose

SpecScalar == InitScalar /\ [][NextScalar]_vars

IntegerWritten == arg_meta # Unused /\ Compiled /\ arg_meta.type = "integer"

\* C16 as stated: the pattern of an integer parameter accepts every text
\* made of an optional minus and one or more digits, leading zeros
\* included ("007" and "-00" are accepted).
IntegerAnyDigits ==
    IntegerWritten =>
        (matched <=> (Len(Unsigned(text)) >= 1 /\ AllDigits(Unsigned(text))))

\* C16 as amended: the pattern accepts exactly an optional minus followed
\* by either the single digit 0 or a digit 1..9 and any further digits:
\* "007" and "-00" are rejected, "0", "-0" and "700" are accepted.
IntegerNoLeadingZeros ==
    IntegerWritten =>
        (matched <=>
            /\ Len(Unsigned(text)) >= 1
            /\ AllDigits(Unsigned(text))
            /\ Unsigned(text)[1] = "0" => Len(Unsigned(text)) = 1)

\* "007" has been written and rejected.
IntegerNoLeadingZerosWitness ==
    /\ IntegerWritten
    /\ text = <<"0", "0", "7">>
    /\ ~matched

StringClosed == arg_meta # Unused /\ pc = "closed" /\ arg_meta.type = "string"

\* C17: a string value is a double-quoted body of 1 to 42 items, each one
\* character other than a control character, a quote or a backslash, or a
\* backslash followed by a quote or a backslash; the empty string and a
\* body of 43 items are rejected, and a body holding a bare quote is
\* rejected.
StringBody ==
    StringClosed =>
        (matched <=>
            /\ Cardinality(Items(emitted)) \in 1..42
            /\ \A k \in Items(emitted) : emitted[k].good)

\* A body of 43 letters has been written and rejected.
StringBodyWitness ==
    /\ StringClosed
    /\ Cardinality(Items(emitted)) = 43
    /\ \A k \in Items(emitted) : emitted[k].form = "plain"
    /\ ~matched

(***************************************************************************)
(* Concurrent calls of the two compilers.  The callers share the module    *)
(* tables and the argument objects; a step of a call is one statement, or  *)
(* one element of a list comprehension.                                    *)
(***************************************************************************)

\* Callers running at once.
MaxCallers == 2

Callers == 1..MaxCallers

\* The schemas and catalogs the callers share.
SharedSchemas ==
    { <<<<<<"Y", "r">>, "year">>, <<<<"r", "e", "v">>, "integer_comma">>>>,
      <<<<<<"n", "e", "t">>, "number">>, <<<<"q", "t", "y">>, "integer">>>>,
      <<<<<<"Y", "r">>, "year">>>> }

SharedCatalogs == {fs \in Catalogs : fs[1].name = <<"f">> /\ Len(fs[1].parameters.properties) = 1}

\* A caller that has not called yet.
Idle ==
    [fn |-> "", pc |-> "idle", given |-> <<>>, during |-> {},
     header |-> <<>>, data_patterns |-> <<>>, data_line |-> <<>>,
     multi_regex |-> <<>>, result |-> NotCompiled]

InCall(c) == calls[c].pc \notin {"idle", "returned", "raised"}

Finished(c) == calls[c].pc \in {"returned", "raised"}

InitConcurrent ==
    /\ pc = "calls"
    /\ column_types \in SharedSchemas
    /\ max_rows = MaxRows
    /\ function_data = Unused
    /\ functions \in SharedCatalogs
    /\ arg_meta = Unused
    /\ column_type = Unused
    /\ pattern = NotCompiled
    /\ emitted = <<>>
    /\ text = <<>>
    /\ matched = FALSE
    /\ tables = ModuleState
    /\ calls = [c \in Callers |-> Idle]
    /\ NoDemo

\* What a step of a call leaves alone: everything but the call's own frame.
outside == <<pc, inputs, pattern, emitted, text, matched, demos>>

\* create_regex_pattern(column_types, max_rows) is entered; the arguments
\* are the shared objects.
CallCreateRegexPattern(c) ==
    /\ calls[c].pc = "idle"
    /\ calls' = [calls EXCEPT ![c] =
                    [Idle EXCEPT !.fn = "create_regex_pattern", !.pc = "header",
                                 !.given = <<column_types, max_rows>>,
                                 !.during = {d \in Callers : InCall(d)}]]
    /\ UNCHANGED outside

\* header = ",".join(column_types.keys())
Header(c) ==
    /\ calls[c].pc = "header"
    /\ calls' = [calls EXCEPT ![c].header = join(<<",">>, keys(column_types)),
                              ![c].pc = "data_patterns"]
    /\ UNCHANGED outside

\* COLUMN_TYPE_REGEX[dtype] with the element removed from the table once read
DataPattern_popping(c) ==
    /\ calls[c].pc = "data_patterns"
    /\ Len(calls[c].data_patterns) < Len(column_types)
    /\ LET dtype == values(column_types)[Len(calls[c].data_patterns) + 1]
       IN  IF dtype \in DOMAIN tables.COLUMN_TYPE_REGEX
           THEN /\ calls' = [calls EXCEPT ![c].data_patterns =
                                Append(@, tables.COLUMN_TYPE_REGEX[dtype])]
                /\ tables' = [tables EXCEPT !.COLUMN_TYPE_REGEX =
                                [t \in DOMAIN @ \ {dtype} |-> @[t]]]
           ELSE /\ calls' = [calls EXCEPT ![c].result = KeyError, ![c].pc = "raised"]
                /\ tables' = tables
    /\ UNCHANGED <<pc, column_types, max_rows, function_data, functions, arg_meta,
                   column_type, pattern, emitted, text, matched, demos>>

\* One element of [COLUMN_TYPE_REGEX[dtype] for dtype in column_types.values()]
DataPattern(c) ==
    /\ calls[c].pc = "data_patterns"
    /\ Len(calls[c].data_patterns) < Len(column_types)
    /\ LET dtype == values(column_types)[Len(calls[c].data_patterns) + 1]
       IN  calls' = IF dtype \in DOMAIN tables.COLUMN_TYPE_REGEX
                    THEN [calls EXCEPT ![c].data_patterns =
                             Append(@, tables.COLUMN_TYPE_REGEX[dtype])]
                    ELSE [calls EXCEPT ![c].result = KeyError, ![c].pc = "raised"]
    /\ UNCHANGED outside

\* data_line = ",".join(data_patterns)
DataLine(c) ==
    /\ calls[c].pc = "data_patterns"
    /\ Len(calls[c].data_patterns) = Len(column_types)
    /\ calls' = [calls EXCEPT ![c].data_line = join(<<",">>, calls[c].data_patterns),
                              ![c].pc = "return"]
    /\ UNCHANGED outside

\* return f"{header}(\n{data_line}){{,{max_rows}}}\n\n"
ReturnPattern(c) ==
    /\ calls[c].pc = "return"
    /\ calls' = [calls EXCEPT
                    ![c].result = Returned(calls[c].header \o <<"(", "\n">> \o calls[c].data_line
                                           \o <<")", "{", ",">> \o str(max_rows)
                                           \o <<"}", "\n", "\n">>),
                    ![c].pc = "returned"]
    /\ UNCHANGED outside

\* multi_function_fc_regex(fs) is entered; fs is the shared catalog.
CallMultiFunctionFcRegex(c) ==
    /\ calls[c].pc = "idle"
    /\ calls' = [calls EXCEPT ![c] =
                    [Idle EXCEPT !.fn = "multi_function_fc_regex", !.pc = "functions",
                                 !.given = functions,
                                 !.during = {d \in Callers : InCall(d)}]]
    /\ UNCHANGED outside

\* One element of [rf"({build_standard_fc_regex(f)})" for f in fs]
BuildFunction(c) ==
    /\ calls[c].pc = "functions"
    /\ Len(calls[c].multi_regex) < Len(functions)
    /\ LET r == build_standard_fc_regex(functions[Len(calls[c].multi_regex) + 1])
       IN  calls' = IF r.raised
                    THEN [calls EXCEPT ![c].result = KeyError, ![c].pc = "raised"]
                    ELSE [calls EXCEPT ![c].multi_regex =
                             Append(@, <<"(">> \o r.value \o <<")">>)]
    /\ UNCHANGED outside

\* multi_regex = "|".join([...]); return multi_regex
ReturnMultiRegex(c) ==
    /\ calls[c].pc = "functions"
    /\ Len(calls[c].multi_regex) = Len(functions)
    /\ calls' = [calls EXCEPT ![c].result = Returned(join(<<"|">>, calls[c].multi_regex)),
                              ![c].pc = "returned"]
    /\ UNCHANGED outside

NextConcurrent ==
    \E c \in Callers :
        \/ CallCreateRegexPattern(c)
        \/ Header(c)
        \/ DataPattern(c)
        \/ DataLine(c)
        \/ ReturnPattern(c)
        \/ CallMultiFunctionFcRegex(c)
        \/ BuildFunction(c)
        \/ ReturnMultiRegex(c)

SpecConcurrent == InitConcurrent /\ [][NextConcurrent]_vars

\* What a call of fn on the given arguments returns when it runs alone.
Alone(fn, given) ==
    IF fn = "create_regex_pattern" THEN create_regex_pattern(given[1], given[2])
    ELSE multi_function_fc_regex(given)

\* The arguments a caller of fn would pass now.
Arguments(fn) == IF fn = "create_regex_pattern" THEN <<column_types, max_rows>> ELSE functions

\* C14: in any interleaving of concurrent calls, a finished call of
\* create_regex_pattern or multi_function_fc_regex has returned (or raised)
\* what the call returns on these arguments when run alone, so calls on the
\* same schema or catalog return the same string; the arguments are what
\* they were when the call was entered, and the module-level tables are
\* what the modules define.
DeterministicAndPure ==
    pc = "calls" =>
        /\ tables = ModuleState
        /\ \A c \in Callers :
              /\ calls[c].pc # "idle" => calls[c].given = Arguments(calls[c].fn)
              /\ Finished(c) => calls[c].result = Alone(calls[c].fn, calls[c].given)
        /\ \A c, d \in Callers :
              (Finished(c) /\ Finished(d) /\ calls[c].fn = calls[d].fn
               /\ calls[c].given = calls[d].given) => calls[c].result = calls[d].result

\* Two calls of create_regex_pattern on a two-column schema, the second
\* entered while the first was running, have both returned the same string.
DeterministicAndPureWitness ==
    /\ pc = "calls"
    /\ Len(column_types) = 2
    /\ \A c \in {1, 2} : calls[c].fn = "create_regex_pattern" /\ calls[c].pc = "returned"
    /\ 1 \in calls[2].during
    /\ calls[1].result = calls[2].result
    /\ Len(calls[1].result.value) > 0

(***************************************************************************)
(* Names with regular-expression characters.  Both compilers write the     *)
(* names of a schema into the pattern as they are.                         *)
(***************************************************************************)

\* Longest name the generator writes.
MaxNameLen == 3

\* Names a schema gives to a column, a function, a parameter or a field.
SchemaNames == { <<"a", "b">>, <<"a", ".">>, <<"a", "+">> }

\* The characters the generator writes a name from.
NameAlphabet == {"a", "b", ".", "+"}

InitNames ==
    /\ pc = "start"
    /\ \E name \in SchemaNames :
          \/ /\ column_types = << <<name, "year">> >>
             /\ max_rows = 0
             /\ function_data = Unused
             /\ arg_meta = Unused
          \/ /\ column_types = Unused
             /\ max_rows = Unused
             /\ function_data \in {Function(name, <<>>, <<>>),
                                   Function(<<"f">>, <<name>>, <<name>>)}
             /\ arg_meta = Unused
          \/ /\ column_types = Unused
             /\ max_rows = Unused
             /\ function_data = Unused
             /\ arg_meta = Object(<< <<name, IntegerType>> >>)
    /\ functions = Unused
    /\ column_type = Unused
    /\ pattern = NotCompiled
    /\ emitted = <<>>
    /\ text = <<>>
    /\ matched = FALSE
    /\ tables = ModuleState
    /\ calls = Unused
    /\ NoDemo

\* Which kind of name the schema holds.
NameKind ==
    IF column_types # Unused THEN "column"
    ELSE IF arg_meta # Unused THEN "field"
    ELSE IF Len(function_data.parameters.properties) = 0 THEN "function"
    ELSE "parameter"

\* The name as the schema writes it.
SchemaName ==
    IF NameKind = "column" THEN column_types[1][1]
    ELSE IF NameKind = "field" THEN arg_meta.properties[1][1]
    ELSE IF NameKind = "function" THEN function_data.name
    ELSE function_data.parameters.properties[1][1]

\* The compiler of the schema's kind is called.
CompileNamed ==
    /\ pc = "start"
    /\ pattern' = IF NameKind = "column" THEN create_regex_pattern(column_types, max_rows)
                  ELSE IF NameKind = "field" THEN type_to_regex(arg_meta)
                  ELSE build_standard_fc_regex(function_data)
    /\ pc' = IF pattern'.raised THEN "raised" ELSE "name"
    /\ UNCHANGED <<calls, demos, inputs, emitted, text, matched>>

\* The generator writes one more character of the name.
EmitNameChar ==
    /\ pc = "name"
    /\ Len(emitted) < MaxNameLen
    /\ \E c \in NameAlphabet : emitted' = Append(emitted, c)
    /\ UNCHANGED <<pc, calls, demos, inputs, pattern, text, matched>>

\* The output that holds the written name where the schema's name belongs,
\* everything else well formed: no data row, no argument of an empty
\* signature, the integer 7 for a parameter or a field.
Around(kind, name) ==
    IF kind = "column" THEN name \o <<"\n", "\n">>
    ELSE IF kind = "field" THEN <<"{", "\"">> \o name \o <<"\"", ":", " ", "7", "}">>
    ELSE IF kind = "function" THEN <<"[">> \o name \o <<"(", ")", "]">>
    ELSE <<"[", "f", "(">> \o name \o <<"=", "7", ")", "]">>

\* The generator writes the rest of the output around the name.
EmitAround ==
    /\ pc = "name"
    /\ text' = Around(NameKind, emitted)
    /\ matched' = fullmatch(pattern.value, text')
    /\ pc' = "named"
    /\ UNCHANGED <<calls, demos, inputs, pattern, emitted>>

NextNames == CompileNamed \/ EmitNameChar \/ EmitAround

SpecNames == InitNames /\ [][NextNames]_vars

\* C28 as stated: whatever characters a column, function, parameter or
\* field name holds, an output is accepted only if the name appears in it
\* exactly as the schema writes it.
NamesLiteral ==
    (pc = "named" /\ matched) => emitted = SchemaName

(***************************************************************************)
(* nouscon-24/demo.py: the characters of a story and main's combat loop    *)
(***************************************************************************)

\* No compiler is running.
NoCompiler ==
    /\ pc = "demo"
    /\ column_types = Unused
    /\ max_rows = Unused
    /\ function_data = Unused
    /\ functions = Unused
    /\ arg_meta = Unused
    /\ column_type = Unused
    /\ pattern = NotCompiled
    /\ emitted = <<>>
    /\ text = <<>>
    /\ matched = FALSE
    /\ tables = ModuleState
    /\ calls = Unused

\* CombatSkillLevel.modifier
modifier(level) == IF level = "low" THEN 1 ELSE IF level = "medium" THEN 2 ELSE 3

\* random.randint(1, 10)
DieRolls == 1..10

\* The characters the language model writes: a name (with its description),
\* skills, and any health points.
GeneratedCharacters ==
    { [name |-> "Ann", skills |-> [attack |-> "high", defense |-> "low"], health_points |-> 57],
      [name |-> "Bob", skills |-> [attack |-> "low", defense |-> "high"], health_points |-> -3],
      [name |-> "Bob", skills |-> [attack |-> "medium", defense |-> "medium"], health_points |-> 10],
      [name |-> "Ann", skills |-> [attack |-> "high", defense |-> "low"], health_points |-> 0] }

\* The JSON of a Story has been generated; main has not started.  winner,
\* loser and the loop variable character are unbound (0).
InitCombat ==
    /\ NoCompiler
    /\ story \in [at : {"json"},
                  characters : [1..2 -> GeneratedCharacters],
                  character : {0}, winner : {0}, loser : {0}]
    /\ game = Unused
    /\ stressed = Unused

\* What the combat loop leaves alone.
beside_story == <<pc, inputs, pattern, emitted, text, matched, calls, game, stressed>>

\* Character.__init__: the generated health points are replaced by 10.
CharacterInit(kwargs) == [kwargs EXCEPT !.health_points = 10]

\* model.make_story: the Story is built from the JSON, each Character by
\* its __init__.
MakeStory ==
    /\ story.at = "json"
    /\ story' = [story EXCEPT !.characters = [k \in 1..2 |-> CharacterInit(story.characters[k])],
                              !.at = "while"]
    /\ UNCHANGED beside_story

\* while all(character.health_points > 0 for character in story.characters)
WhileAllAlive ==
    /\ story.at = "while"
    /\ story' = [story EXCEPT !.at = IF \A k \in 1..2 : story.characters[k].health_points > 0
                                     THEN "for 1" ELSE "after"]
    /\ UNCHANGED beside_story

\* Character.attack with the two dice as rolled
attack(self, opponent, attack_die, defense_die) ==
    LET attack_roll == attack_die + modifier(self.skills.attack)
        defense_roll == defense_die + modifier(opponent.skills.defense)
    IN  IF attack_roll > defense_roll THEN attack_roll - defense_roll ELSE 0

\* Character.take_damage
take_damage(self, damage) ==
    LET health_points == self.health_points - damage
    IN  [self EXCEPT !.health_points = IF health_points < 0 THEN 0 ELSE health_points]

\* The characters c of the story with c != character, in order; the
\* comparison of two models is by their fields.
Others(i) == SelectSeq(<<1, 2>>, LAMBDA k : story.characters[k] # story.characters[i])

\* One pass of "for character in story.characters": the opponent is looked
\* up, attacked and damaged; the loop is left when the opponent is down.
Turn(i) ==
    /\ story.at = IF i = 1 THEN "for 1" ELSE "for 2"
    /\ IF Others(i) = <<>>
       THEN \* next() of an exhausted generator: StopIteration
            story' = [story EXCEPT !.character = i, !.at = "raised"]
       ELSE LET j == Others(i)[1]
            IN  \E attack_die \in DieRolls, defense_die \in DieRolls :
                   LET damage == attack(story.characters[i], story.characters[j],
                                        attack_die, defense_die)
                       opponent == take_damage(story.characters[j], damage)
                   IN  story' = IF opponent.health_points <= 0
                                THEN [story EXCEPT !.characters[j] = opponent,
                                                   !.character = i,
                                                   !.winner = i, !.loser = j,
                                                   !.at = "while"]
                                ELSE [story EXCEPT !.characters[j] = opponent,
                                                   !.character = i,
                                                   !.at = IF i = 1 THEN "for 2" ELSE "while"]
    /\ UNCHANGED beside_story

NextCombat == MakeStory \/ WhileAllAlive \/ Turn(1) \/ Turn(2)

SpecCombat == InitCombat /\ [][NextCombat]_vars

\* The loop has been left, by its condition or by an exception.
LoopEnded == story.at \in {"after", "raised"}

Health(k) == story.characters[k].health_points

\* Between the construction of the story and the end: health within 0..10
\* and no attack pending once somebody is at 0.
CombatBounds ==
    /\ \A k \in 1..2 : Health(k) \in 0..10
    /\ story.at \in {"for 1", "for 2"} => \A k \in 1..2 : Health(k) > 0

\* C22 as stated: every character starts at 10 whatever was generated,
\* health stays within 0..10, no attack is made once a character is at 0,
\* and when the loop ends exactly one character is at 0, winner is the
\* character that dealt the last blow and is above 0, loser is the one at 0.
CombatLoop ==
    (story # Unused /\ story.at # "json") =>
        /\ CombatBounds
        /\ LoopEnded =>
              /\ Cardinality({k \in 1..2 : Health(k) = 0}) = 1
              /\ story.winner \in 1..2 /\ story.loser \in 1..2
              /\ story.winner = story.character
              /\ Health(story.winner) > 0
              /\ Health(story.loser) = 0

\* The same for stories whose two characters differ in name or skills.
CombatLoopDistinct ==
    (story # Unused
     /\ [story.characters[1] EXCEPT !.health_points = 0]
        # [story.characters[2] EXCEPT !.health_points = 0]) => CombatLoop

(***************************************************************************)
(* holidays-2024/santa/santa-game.py: the board, Santa's moves, the gifts  *)
(***************************************************************************)

\* Most gifts picked up in one game.
MaxPickups == 3

Directions ==
    {"up", "down", "left", "right", "up-left", "up-right", "down-left", "down-right"}

\* What play_step may find in its list of moves: a direction, "q", or
\* anything else.
Moves == Directions \cup {"q", "jump"}

\* get_valid_moves(santa_pos, board_size) with "down" offered on the last row
get_valid_moves_below(santa_pos, board_size) ==
    SelectSeq(<<"up", "down", "left", "right", "up-left", "up-right", "down-left", "down-right">>,
              LAMBDA m :
                  \/ m = "up" /\ santa_pos[1] > 0
                  \/ m = "down" /\ santa_pos[1] < board_size
                  \/ m = "left" /\ santa_pos[2] > 0
                  \/ m = "right" /\ santa_pos[2] < board_size - 1
                  \/ m = "up-left" /\ santa_pos[1] > 0 /\ santa_pos[2] > 0
                  \/ m = "up-right" /\ santa_pos[1] > 0 /\ santa_pos[2] < board_size - 1
                  \/ m = "down-left" /\ santa_pos[1] < board_size - 1 /\ santa_pos[2] > 0
                  \/ m = "down-right" /\ santa_pos[1] < board_size - 1
                                      /\ santa_pos[2] < board_size - 1)

\* get_valid_moves(santa_pos, board_size): the moves in the order they are
\* appended; random.shuffle then reorders them and "|".join writes them.
\* santa_pos is <<row, column>>, counted from 0.
get_valid_moves(santa_pos, board_size) ==
    SelectSeq(<<"up", "down", "left", "right", "up-left", "up-right", "down-left", "down-right">>,
              LAMBDA m :
                  \/ m = "up" /\ santa_pos[1] > 0
                  \/ m = "down" /\ santa_pos[1] < board_size - 1
                  \/ m = "left" /\ santa_pos[2] > 0
                  \/ m = "right" /\ santa_pos[2] < board_size - 1
                  \/ m = "up-left" /\ santa_pos[1] > 0 /\ santa_pos[2] > 0
                  \/ m = "up-right" /\ santa_pos[1] > 0 /\ santa_pos[2] < board_size - 1
                  \/ m = "down-left" /\ santa_pos[1] < board_size - 1 /\ santa_pos[2] > 0
                  \/ m = "down-right" /\ santa_pos[1] < board_size - 1
                                      /\ santa_pos[2] < board_size - 1)

\* valid_moves.split('|'), as a set
ValidMoves(g) ==
    {get_valid_moves(g.santa_pos, g.board_size)[k] :
        k \in 1..Len(get_valid_moves(g.santa_pos, g.board_size))}

Cells(board_size) == (0..(board_size - 1)) \X (0..(board_size - 1))

\* SantaGame.__init__; picked_up counts the "You picked up a gift!" lines
\* of action_log.
NewGame ==
    [at |-> "new", board_size |-> 5, santa_pos |-> <<4, 4>>, score |-> 0,
     gift_count |-> 3, house_count |-> 3, inventory |-> 0,
     board |-> [c \in Cells(5) |-> "blank"], picked_up |-> 0]

\* The cells random.randint picks in this model.
SpawnCells == { <<4, 4>>, <<3, 3>>, <<3, 4>>, <<4, 3>>, <<2, 2>>, <<4, 0>>, <<0, 4>> }

Holding(board, char) == {c \in DOMAIN board : board[c] = char}

\* The boards spawn_gifts / spawn_houses may leave: cells picked at random
\* and filled when blank, until the board holds wanted cells of that kind.
Spawn(board, char, wanted) ==
    IF Cardinality(Holding(board, char)) >= wanted THEN {board}
    ELSE {[c \in DOMAIN board |-> IF c \in new THEN char ELSE board[c]] :
             new \in {S \in SUBSET (SpawnCells \cap Holding(board, "blank")) :
                         Cardinality(S) = wanted - Cardinality(Holding(board, char))}}

\* Where a direction leads from pos, whether or not it is on the board.
Step(pos, direction) ==
    <<pos[1] + (IF direction \in {"up", "up-left", "up-right"} THEN -1
                ELSE IF direction \in {"down", "down-left", "down-right"} THEN 1 ELSE 0),
      pos[2] + (IF direction \in {"left", "up-left", "down-left"} THEN -1
                ELSE IF direction \in {"right", "up-right", "down-right"} THEN 1 ELSE 0)>>

\* SantaGame.move_santa that delivers to a house whatever the inventory
move_santa_generous(g, direction) ==
    LET new_pos == Step(g.santa_pos, direction)
    IN  IF direction \notin Directions \/ new_pos \notin Cells(g.board_size)
        THEN [returned |-> FALSE, self |-> g]
        ELSE [returned |-> TRUE,
              self |->
                 IF g.board[new_pos] = "gift"
                 THEN [g EXCEPT !.inventory = @ + 1, !.board[new_pos] = "blank",
                                !.picked_up = @ + 1, !.santa_pos = new_pos]
                 ELSE IF g.board[new_pos] = "house"
                 THEN [g EXCEPT !.score = @ + 1, !.inventory = @ - 1, !.santa_pos = new_pos]
                 ELSE [g EXCEPT !.santa_pos = new_pos]]

\* SantaGame.move_santa(direction): what it returns and the game after it
move_santa(g, direction) ==
    LET new_pos == Step(g.santa_pos, direction)
    IN  IF direction \notin Directions \/ new_pos \notin Cells(g.board_size)
        THEN [returned |-> FALSE, self |-> g]
        ELSE [returned |-> TRUE,
              self |->
                 IF g.board[new_pos] = "gift"
                 THEN [g EXCEPT !.inventory = @ + 1, !.board[new_pos] = "blank",
                                !.picked_up = @ + 1, !.santa_pos = new_pos]
                 ELSE IF g.board[new_pos] = "house" /\ g.inventory > 0
                 THEN [g EXCEPT !.score = @ + 1, !.inventory = @ - 1, !.santa_pos = new_pos]
                 ELSE [g EXCEPT !.santa_pos = new_pos]]

InitSanta ==
    /\ NoCompiler
    /\ story = Unused
    /\ game = NewGame
    /\ stressed = Unused

beside_game == <<pc, inputs, pattern, emitted, text, matched, calls, story, stressed>>

\* play: self.spawn_houses(); self.spawn_gifts()
PlaySpawns ==
    /\ game.at = "new"
    /\ \E houses \in Spawn(game.board, "house", game.house_count) :
          \E gifts \in Spawn(houses, "gift", game.gift_count) :
              game' = [game EXCEPT !.board = gifts, !.at = "playing"]
    /\ UNCHANGED beside_game

\* play_step([move]): "q" ends the game, a direction is given to
\* move_santa and spawn_gifts follows, anything else is passed over.  A
\* game sees at most MaxPickups gifts picked up.
PlayStep ==
    /\ game.at = "playing"
    /\ \E move \in Moves :
          IF move = "q" THEN game' = [game EXCEPT !.at = "over"]
          ELSE IF move \in Directions
          THEN /\ move_santa(game, move).self.picked_up <= MaxPickups
               /\ \E board \in Spawn(move_santa(game, move).self.board, "gift", game.gift_count) :
                     game' = [move_santa(game, move).self EXCEPT !.board = board]
          ELSE game' = game
    /\ UNCHANGED beside_game

NextSanta == PlaySpawns \/ PlayStep

SpecSanta == InitSanta /\ [][NextSanta]_vars

\* C23: Santa stays on the board; at every position the moves offered by
\* get_valid_moves are at least one and are exactly the directions for
\* which move_santa returns True; any other move leaves santa_pos,
\* inventory, score and the board as they were.
SantaMoves ==
    game # Unused =>
        /\ game.santa_pos \in Cells(game.board_size)
        /\ ValidMoves(game) # {}
        /\ ValidMoves(game) = {m \in Moves : move_santa(game, m).returned}
        /\ \A m \in Moves \ ValidMoves(game) : move_santa(game, m).self = game

\* Santa has walked to the corner opposite to his start, where three moves
\* are offered.
SantaMovesWitness ==
    /\ game # Unused
    /\ game.at = "playing"
    /\ game.santa_pos = <<0, 0>>
    /\ ValidMoves(game) = {"down", "right", "down-right"}
    /\ ~move_santa(game, "up-left").returned

\* What a move onto the cell target does to the gifts.
MoveEffect(g, after, target) ==
    IF g.board[target] = "gift"
    THEN /\ after.inventory = g.inventory + 1
         /\ after.score = g.score
         /\ after.board = [g.board EXCEPT ![target] = "blank"]
    ELSE IF g.board[target] = "house" /\ g.inventory > 0
    THEN /\ after.score = g.score + 1
         /\ after.inventory = g.inventory - 1
         /\ after.board = g.board
    ELSE /\ after.score = g.score
         /\ after.inventory = g.inventory
         /\ after.board = g.board

\* C24: inventory is never negative; a move onto a gift adds 1 to inventory
\* and clears the cell, a move onto a house with a gift in hand adds 1 to
\* score, takes 1 from inventory and leaves the house, any other move
\* changes neither, so score never decreases and score + inventory is the
\* number of gifts picked up; once play has spawned them the board holds
\* gift_count gifts and house_count houses after every play_step.
GiftAccounting ==
    game # Unused =>
        /\ game.inventory >= 0
        /\ game.score >= 0
        /\ game.score + game.inventory = game.picked_up
        /\ game.at # "new" =>
              /\ Cardinality(Holding(game.board, "gift")) = game.gift_count
              /\ Cardinality(Holding(game.board, "house")) = game.house_count
        /\ \A m \in ValidMoves(game) :
              /\ MoveEffect(game, move_santa(game, m).self, Step(game.santa_pos, m))
              /\ move_santa(game, m).self.score >= game.score

\* Two gifts have been delivered, a third is in hand, and Santa stands on
\* a house that is still on the board.
GiftAccountingWitness ==
    /\ game # Unused
    /\ game.at = "playing"
    /\ game.score = 2
    /\ game.inventory = 1
    /\ game.board[game.santa_pos] = "house"

\* C30 as stated: once the gifts are spawned, and after every play_step,
\* neither a gift nor a house is on Santa's cell.
NothingUnderSanta ==
    (game # Unused /\ game.at # "new") => game.board[game.santa_pos] = "blank"

\* No gift is on Santa's cell (houses set aside).
NoGiftUnderSanta ==
    (game # Unused /\ game.at # "new") => game.board[game.santa_pos] # "gift"

(***************************************************************************)
(* logs/stressed.py: STRESSED.analyze_logs                                 *)
(***************************************************************************)

\* Longest list of logs written out entry by entry.
MaxLogs == 3

\* chr(n), for the characters the model uses
chr(n) == Printable[n - 31]

\* The log entries: the empty string and two lines.
LogEntries == { <<>>, <<"a">>, <<"b">> }

\* Every list of up to MaxLogs entries, and the lists of 26 * 26 and of
\* 26 * 26 + 1 equal lines.
LogLists ==
    UNION {[1..n -> LogEntries] : n \in 0..MaxLogs}
    \cup {[k \in 1..n |-> <<"a">>] : n \in {26 * 26, 26 * 26 + 1}}

\* The chunk sizes tried on a list: every size up to one more than its
\* length for a short list, about its length for a long one.
ChunkSizes(logs) ==
    IF Len(logs) <= MaxLogs THEN 1..(MaxLogs + 1)
    ELSE {26 * 25, 26 * 26, 26 * 26 + 1}

\* analyze_logs(logs, chunk_size) is entered: results = [], the range
\* starts at i = 0.
InitLogs ==
    /\ NoCompiler
    /\ story = Unused
    /\ game = Unused
    /\ \E logs \in LogLists :
          \E chunk_size \in ChunkSizes(logs) :
              stressed = [at |-> "for", logs |-> logs, chunk_size |-> chunk_size,
                          i |-> 0, results |-> <<>>]

beside_stressed == <<pc, inputs, pattern, emitted, text, matched, calls, story, game>>

\* Python's logs[a:b]
Slice(logs, a, b) ==
    SubSeq(logs, a + 1, IF b < Len(logs) THEN b ELSE Len(logs))

NonEmpty(log) == log # <<>>

\* f"LOGID-{chr(65 + (j // 26) % 26)}{chr(65 + j % 26)}"
log_id(j) ==
    <<"L", "O", "G", "I", "D", "-">> \o <<chr(65 + ((j \div 26) % 26)), chr(65 + (j % 26))>>

\* logs_with_ids for the chunk: f"{log_id} {log}" for every kept entry
logs_with_ids(chunked_logs) ==
    [k \in 1..Len(chunked_logs) |-> log_id(k - 1) \o <<" ">> \o chunked_logs[k]]

\* One pass of "for i in range(0, len(logs), chunk_size)": the empty
\* entries of the slice are dropped; an empty chunk is skipped; otherwise
\* the chunk is sent to the model and its analysis appended to results.
\* The analysis is kept as the chunk it was made from.
AnalyzeChunk ==
    /\ stressed.at = "for"
    /\ stressed.i < Len(stressed.logs)
    /\ LET chunked_logs ==
               SelectSeq(Slice(stressed.logs, stressed.i, stressed.i + stressed.chunk_size),
                         NonEmpty)
       IN  stressed' =
              [stressed EXCEPT
                  !.i = @ + stressed.chunk_size,
                  !.results = IF chunked_logs = <<>> THEN @
                              ELSE Append(@, logs_with_ids(chunked_logs))]
    /\ UNCHANGED beside_stressed

\* return results
ReturnResults ==
    /\ stressed.at = "for"
    /\ stressed.i >= Len(stressed.logs)
    /\ stressed' = [stressed EXCEPT !.at = "returned"]
    /\ UNCHANGED beside_stressed

NextLogs == AnalyzeChunk \/ ReturnResults

SpecLogs == InitLogs /\ [][NextLogs]_vars

\* The identifier and the entry of a line sent to the model.
IdOf(line) == SubSeq(line, 1, 8)

EntryOf(line) == SubSeq(line, 10, Len(line))

\* The entries sent so far, chunk after chunk.
RECURSIVE Sent(_)
Sent(results) ==
    IF results = <<>> THEN <<>>
    ELSE Sent(SubSeq(results, 1, Len(results) - 1))
         \o [k \in 1..Len(results[Len(results)]) |-> EntryOf(results[Len(results)][k])]

\* The entries the loop has gone through.
Processed ==
    Slice(stressed.logs, 0, stressed.i)

\* The chunks gone through that hold a non-empty entry.
NonEmptyChunks ==
    {c \in 0..(Len(stressed.logs) - 1) :
        /\ c % stressed.chunk_size = 0
        /\ c < stressed.i
        /\ \E k \in (c + 1)..(c + stressed.chunk_size) :
              k <= Len(stressed.logs) /\ NonEmpty(stressed.logs[k])}

\* Every non-empty entry gone through was sent once, in order; no empty
\* chunk was sent; one analysis per non-empty chunk.
ChunksInOrder ==
    /\ Sent(stressed.results) = SelectSeq(Processed, NonEmpty)
    /\ \A r \in 1..Len(stressed.results) : stressed.results[r] # <<>>
    /\ Len(stressed.results) = Cardinality(NonEmptyChunks)

\* The identifiers of one chunk are pairwise distinct.
DistinctIds(chunk) ==
    \A j, k \in 1..Len(chunk) : j # k => IdOf(chunk[j]) # IdOf(chunk[k])

\* C25 as stated: for every list of logs and every chunk_size >= 1, each
\* non-empty entry is sent in exactly one chunk, in order; no call is made
\* for an empty chunk; results has one analysis per non-empty chunk; the
\* LOGID identifiers of a chunk are pairwise distinct for any chunk size.
LogChunking ==
    stressed # Unused =>
        /\ ChunksInOrder
        /\ \A r \in 1..Len(stressed.results) : DistinctIds(stressed.results[r])

\* The same, the identifiers being distinct in chunks of up to 26 * 26
\* entries.
LogChunkingShort ==
    stressed # Unused =>
        /\ ChunksInOrder
        /\ \A r \in 1..Len(stressed.results) :
              Len(stressed.results[r]) <= 26 * 26 => DistinctIds(stressed.results[r])

(***************************************************************************)
(* CSV grammar: the shape of a document, read off the text itself          *)
(***************************************************************************)

\* The k-th smallest member of a set of numbers.
Nth(S, k) == CHOOSE i \in S : Cardinality({j \in S : j < i}) = k - 1

NewlinePositions(s) == {i \in 1..Len(s) : s[i] = "\n"}

\* Where line k of s is cut off: 0 before the first line, the k-th newline,
\* or one past the end.
LineCut(s, k) ==
    IF k = 0 THEN 0
    ELSE IF k > Cardinality(NewlinePositions(s)) THEN Len(s) + 1
    ELSE Nth(NewlinePositions(s), k)

\* s.split("\n")
Lines(s) ==
    [k \in 1..(Cardinality(NewlinePositions(s)) + 1) |->
        SubSeq(s, LineCut(s, k - 1) + 1, LineCut(s, k) - 1)]

\* Ends of the substrings of line that start at a and that the fragment of
\* the given column type matches in full.
FragmentEnds(type_name, line, a) == Ends(Parse(COLUMN_TYPE_REGEX[type_name]).n, line, a)

\* Positions of line right after its first k values: value 1 at the start,
\* every later value after one comma, value j matching column j's fragment.
RECURSIVE ValueEnds(_, _, _)
ValueEnds(line, schema, k) ==
    IF k = 0 THEN {1}
    ELSE UNION {FragmentEnds(schema[k][2], line, a) :
                   a \in IF k = 1 THEN {1}
                         ELSE {i + 1 : i \in {j \in ValueEnds(line, schema, k - 1) :
                                                 j <= Len(line) /\ line[j] = ","}}}

\* line is one value per column, in column order, joined by single commas.
IsRow(line, schema) == (Len(line) + 1) \in ValueEnds(line, schema, Len(schema))

\* s is the header, k rows each introduced by one newline, and two newlines.
IsDocument(s, schema, k) ==
    /\ Cardinality(NewlinePositions(s)) = k + 2
    /\ Lines(s)[1] = join(<<",">>, keys(schema))
    /\ Lines(s)[k + 2] = <<>>
    /\ Lines(s)[k + 3] = <<>>
    /\ \A r \in 2..(k + 1) : IsRow(Lines(s)[r], schema)

Writing == pc \in {"header", "rows", "end"}

(***************************************************************************)
(* CSV grammar: properties                                                 *)
(***************************************************************************)

\* C1: for every schema and max_rows = N >= 0, the pattern accepts the
\* document with the header and k well-formed data rows for every k <= N
\* (k = 0 included) and rejects every document with N + 1 well-formed rows.
RowBound ==
    (Writing /\ max_rows >= 0) =>
        \A k \in 0..(max_rows + 1) :
            IsDocument(text, column_types, k) => (matched <=> k <= max_rows)

\* A document of N + 1 = 3 well-formed two-column rows has been written.
RowBoundWitness ==
    /\ pc = "end"
    /\ max_rows = 2
    /\ Len(column_types) = 2
    /\ IsDocument(text, column_types, 3)
    /\ ~matched

\* C2: a text is accepted if and only if it is the header, then k rows
\* (0 <= k <= max_rows), each introduced by one newline and made of one
\* value per column in column order, values matching their column's
\* fragment and joined by single commas, then exactly two newlines.  The
\* row bound is a count (max_rows >= 0); a negative bound is C18's case.
ExactShape ==
    (Writing /\ max_rows >= 0) => (matched <=> \E k \in 0..max_rows : IsDocument(text, column_types, k))

\* The spec's example: year,integer_comma columns, two rows, accepted.
ExactShapeWitness ==
    /\ values(column_types) = <<"year", "integer_comma">>
    /\ max_rows = 2
    /\ IsDocument(text, column_types, 2)
    /\ count(text, ",") = 4
    /\ matched

\* C18 as stated: for max_rows <= 0 the only accepted document is the
\* zero-row document, the header followed by two newlines.
DegenerateBound ==
    (Writing /\ max_rows <= 0) => (matched <=> IsDocument(text, column_types, 0))

\* Lengths of the prefixes of s the pattern p accepts.
AcceptedPrefixes(p, s) == {e - 1 : e \in Ends(Parse(p).n, s, 1)}

\* Positions of s where two consecutive newlines begin.
DoubleNewlines(s) == {i \in 1..(Len(s) - 1) : s[i] = "\n" /\ s[i + 1] = "\n"}

\* An accepted text ends with two newlines, has no two consecutive newlines
\* before them, and none of its proper prefixes is accepted.
StopsOnce(p, s) ==
    /\ fullmatch(p, s) => DoubleNewlines(s) = {Len(s) - 1}
    /\ Cardinality(AcceptedPrefixes(p, s)) <= 1

\* C19 as stated: for every schema, whatever is accepted ends with two
\* newlines, holds two consecutive newlines nowhere earlier, and has no
\* accepted proper prefix.
StopCondition ==
    Writing => StopsOnce(pattern.value, text)

\* C19 as amended: the same, for schemas with at least one column.
StopConditionWithColumns ==
    (Writing /\ Len(column_types) >= 1) => StopsOnce(pattern.value, text)

\* A one-row document of a schema with columns has been accepted and a
\* third newline written after it: the longer text is rejected, its only
\* accepted prefix is the document.
StopConditionWithColumnsWitness ==
    /\ Writing
    /\ Len(column_types) >= 1
    /\ Len(emitted) = 2
    /\ trailing(text, "\n") = 3
    /\ AcceptedPrefixes(pattern.value, text) = {Len(text) - 1}
    /\ ~matched

\* len(line.split(","))
FieldCount(line) == count(line, ",") + 1

\* C26 as stated: every data row of an accepted document splits on ","
\* into as many fields as the header has column names.
OneFieldPerColumn ==
    (Writing /\ matched) =>
        \A r \in 2..(Len(Lines(text)) - 2) :
            FieldCount(Lines(text)[r]) = FieldCount(Lines(text)[1])

IsPrefix(a, b) == Len(a) <= Len(b) /\ SubSeq(b, 1, Len(a)) = a

\* C3 as stated: the returned string begins with the column names joined
\* by "," and followed by a newline.
HeaderThenNewline ==
    Compiled => IsPrefix(join(<<",">>, keys(column_types)) \o <<"\n">>, pattern.value)

\* C3 as amended: the returned string begins with the column names, in
\* their order and case, joined by ",", followed by "(" and then a newline
\* (the newline belongs to the repeated row group).
HeaderFidelity ==
    Compiled => IsPrefix(join(<<",">>, keys(column_types)) \o <<"(", "\n">>, pattern.value)

\* A two-column schema has been compiled.
HeaderFidelityWitness ==
    /\ Compiled
    /\ Len(column_types) = 2
    /\ Len(pattern.value) > 0

====
